---------------------------- MODULE Spec2Model ----------------------------
(***************************************************************************)
(* A model of the lookup layer of the EGDI Geo-Assessment Matrix           *)
(* (src/matrix.py, src/matrix_simple.py): the table loaders, the feature   *)
(* resolver, the assessment accessor, the constraint extractor and the     *)
(* comparison renderer.                                                    *)
(*                                                                         *)
(* Strings are sequences of one-character strings, so that str.strip(),    *)
(* str.lower() and string equality are computed character by character.    *)
(* A table (pandas DataFrame) is a record [columns, rows]: columns is the  *)
(* sequence of column names, rows the sequence of rows, each row a         *)
(* sequence of cells aligned with columns.  A cell is a record [t, s]:     *)
(* t = "null" (None/NaN), t = "str" with the string s, or t = "int" with   *)
(* the decimal digits s.                                                   *)
(***************************************************************************)
EXTENDS Integers, Sequences, FiniteSets, TLC

VARIABLES
    op,               \* the operation whose inputs/outputs the state holds
    pc,               \* "input": arguments drawn, "done": operation returned
    version,          \* "matrix" (matrix.py) or "matrix_simple" (matrix_simple.py)
    constraints_data, \* argument of get_constraints_for_feature
    feature_name,     \* argument of get_constraints_for_feature / resolver
    geological_data,  \* the features table the resolver reads
    foundation_type,  \* argument of get_assessment
    feature_data,     \* the record the resolver returned, or None
    ret,              \* what the operation returned: [exc, val]
    store,            \* the backing store: the GeoPackage file, or the CSV file
    geo_constraints_data, \* the loaded geological_constraints table
    eng_constraints_data, \* the loaded engineering_constraints table
    errors,           \* the st.error messages emitted so far
    session_state,    \* st.session_state: the value of each selection widget
    screen,           \* the panels the last script run displayed
    cache,            \* what st.cache_data keeps: loader name -> first return
    reads,            \* how often each loader opened the store in this process
    peer_state,       \* st.session_state of another browser session
    peer_screen,      \* the panels the other session's last run displayed
    calls,            \* the calls made so far: arguments and return of each
    csv_files         \* the CSV files of the working directory: name -> table

\* the state of the running application
app_vars == <<store, geo_constraints_data, eng_constraints_data, errors,
              session_state, screen, cache, reads, peer_state, peer_screen>>

vars == <<op, pc, version, constraints_data, feature_name, geological_data,
          foundation_type, feature_data, ret, app_vars, calls, csv_files>>

---------------------------------------------------------------------------
(* Bounds of the model *)

\* most constraint columns (columns after the first) of a generated table
MaxCols == 2
\* most rows of a generated table
MaxRows == 2
\* the times a loader may open the store in one process before the model
\* stops following the process
MaxReads == 2
\* most calls of the extractor in a row
MaxCalls == 3

---------------------------------------------------------------------------
(* Strings *)

\* the characters str.strip() removes
Whitespace == {" ", "\t", "\n", "\r"}

RECURSIVE LStrip(_)
LStrip(s) ==
    IF s # <<>> /\ Head(s) \in Whitespace THEN LStrip(Tail(s)) ELSE s

RECURSIVE RStrip(_)
RStrip(s) ==
    IF s # <<>> /\ s[Len(s)] \in Whitespace
    THEN RStrip(SubSeq(s, 1, Len(s) - 1))
    ELSE s

\* str.strip()
Strip(s) == RStrip(LStrip(s))

UpperAlpha == <<"A","B","C","D","E","F","G","H","I","J","K","L","M",
                "N","O","P","Q","R","S","T","U","V","W","X","Y","Z">>
LowerAlpha == <<"a","b","c","d","e","f","g","h","i","j","k","l","m",
                "n","o","p","q","r","s","t","u","v","w","x","y","z">>

LowerChar(c) ==
    IF \E i \in 1..26 : UpperAlpha[i] = c
    THEN LowerAlpha[CHOOSE i \in 1..26 : UpperAlpha[i] = c]
    ELSE c

\* str.lower()
Lower(s) == [i \in 1..Len(s) |-> LowerChar(s[i])]

---------------------------------------------------------------------------
(* Cells and tables *)

Null == [t |-> "null", s |-> <<>>]
S(s) == [t |-> "str", s |-> s]
I(digits) == [t |-> "int", s |-> digits]

\* pd.isna(cell)
IsNa(cell) == cell.t = "null"

\* str(cell) of a cell that is not null
Str(cell) == cell.s

\* pd.DataFrame()
EmptyFrame == [columns |-> <<>>, rows |-> <<>>]

\* DataFrame.empty: no rows or no columns
Empty(df) == Len(df.rows) = 0 \/ Len(df.columns) = 0

\* Python's None, where a record is expected
NoneValue == [None |-> TRUE]
IsNone(v) == DOMAIN v = {"None"}

\* the elements of a list
Elems(q) == {q[i] : i \in 1..Len(q)}

\* the position of column c in df
ColumnIndex(df, c) == CHOOSE i \in 1..Len(df.columns) : df.columns[i] = c

\* df.iloc[i] of a table or of a selection of its rows: the row as a
\* Series, a mapping from column name to cell
Series(df, row) == [c \in Elems(df.columns) |-> row[ColumnIndex(df, c)]]

\* what a call gives back: a value, or an exception that escapes it
Returns(v) == [exc |-> "none", val |-> v]
Raises(e) == [exc |-> e, val |-> <<>>]

---------------------------------------------------------------------------
(* Names of the data *)

Unknown == <<"U","n","k","n","o","w","n">>
PotentiallyUnsuitable ==
    <<"P","o","t","e","n","t","i","a","l","l","y"," ",
      "u","n","s","u","i","t","a","b","l","e">>
RequiresInvestigation ==
    <<"R","e","q","u","i","r","e","s"," ","i","n","d","i","v","i","d","u","a","l"," ",
      "W","T","G"," ","s","i","t","i","n","g"," ",
      "i","n","v","e","s","t","i","g","a","t","i","o","n">>
RaftsOrBoulders ==
    <<"R","a","f","t","s"," ","o","r"," ","b","o","u","l","d","e","r","s">>
\* 'Soft  soil units - low shear strength ', a column name of the reference
\* sheet that ends with a blank
SoftSoilUnits ==
    <<"S","o","f","t"," "," ","s","o","i","l"," ","u","n","i","t","s"," ","-"," ",
      "l","o","w"," ","s","h","e","a","r"," ","s","t","r","e","n","g","t","h"," ">>
GeologicalFeature ==
    <<"G","e","o","l","o","g","i","c","a","l","_","F","e","a","t","u","r","e">>
Sand == <<"S","a","n","d">>
Gravel == <<"G","r","a","v","e","l">>

\* the meta-columns get_constraints_for_feature leaves out
Denylist == {Unknown, PotentiallyUnsuitable, RequiresInvestigation}

---------------------------------------------------------------------------
(* The constraint extractor *)

\* a cell test that forgets .lower(): "X" no longer marks
IsMarked_NoLower(cell) == ~IsNa(cell) /\ Strip(Str(cell)) = <<"x">>

\* the cell test of the loop: not null and str(cell).strip().lower() == 'x'
IsMarked(cell) == ~IsNa(cell) /\ Lower(Strip(Str(cell))) = <<"x">>

\* a row selection that ignores case and padding, as a fallback chain would
RowsEqual_Loose(df, name) ==
    SelectSeq(df.rows, LAMBDA r : r[1].t = "str"
                                  /\ Lower(Strip(r[1].s)) = Lower(Strip(name)))

\* the rows of df whose first column equals name (boolean-mask selection)
RowsEqual(df, name) == SelectSeq(df.rows, LAMBDA r : r[1] = S(name))

\* a loop that tests the raw column name, not the trimmed one, against the
\* denylist
RECURSIVE ConstraintLoop_RawDenylist(_, _, _, _)
ConstraintLoop_RawDenylist(df, row, j, acc) ==
    IF j > Len(df.columns) THEN acc
    ELSE IF IsMarked(row[j])
            /\ Strip(df.columns[j]) # <<>>
            /\ df.columns[j] \notin Denylist
         THEN ConstraintLoop_RawDenylist(df, row, j + 1,
                                         Append(acc, Strip(df.columns[j])))
         ELSE ConstraintLoop_RawDenylist(df, row, j + 1, acc)

\* a loop that inserts at the front of the list instead of appending
RECURSIVE ConstraintLoop_Prepend(_, _, _, _)
ConstraintLoop_Prepend(df, row, j, acc) ==
    IF j > Len(df.columns) THEN acc
    ELSE IF IsMarked(row[j])
            /\ Strip(df.columns[j]) # <<>>
            /\ Strip(df.columns[j]) \notin Denylist
         THEN ConstraintLoop_Prepend(df, row, j + 1,
                                     <<Strip(df.columns[j])>> \o acc)
         ELSE ConstraintLoop_Prepend(df, row, j + 1, acc)

\* a loop that leaves out a name the list already holds
RECURSIVE ConstraintLoop_NoRepeat(_, _, _, _)
ConstraintLoop_NoRepeat(df, row, j, acc) ==
    IF j > Len(df.columns) THEN acc
    ELSE IF IsMarked(row[j])
            /\ Strip(df.columns[j]) # <<>>
            /\ Strip(df.columns[j]) \notin Denylist
            /\ Strip(df.columns[j]) \notin Elems(acc)
         THEN ConstraintLoop_NoRepeat(df, row, j + 1,
                                      Append(acc, Strip(df.columns[j])))
         ELSE ConstraintLoop_NoRepeat(df, row, j + 1, acc)

\* the for loop over constraint_columns = columns[1:], from position j on,
\* appending to the list acc
RECURSIVE ConstraintLoop(_, _, _, _)
ConstraintLoop(df, row, j, acc) ==
    IF j > Len(df.columns) THEN acc
    ELSE LET cell_value == row[j]
             clean_name == Strip(df.columns[j])
         IN  IF IsMarked(cell_value)
                /\ clean_name # <<>>
                /\ clean_name \notin Denylist
             THEN ConstraintLoop(df, row, j + 1, Append(acc, clean_name))
             ELSE ConstraintLoop(df, row, j + 1, acc)

\* an extractor whose list outlives the call: it goes on from the list the
\* call before it returned
get_constraints_for_feature_SharedList(name, df) ==
    IF Empty(df) THEN Returns(<<>>)
    ELSE LET feature_row == RowsEqual(df, name)
         IN  IF feature_row = <<>> THEN Returns(<<>>)
             ELSE Returns(ConstraintLoop(df, feature_row[1], 2, ret.val))

get_constraints_for_feature(name, df) ==
    IF Empty(df) THEN Returns(<<>>)
    ELSE LET feature_row == RowsEqual(df, name)
         IN  IF feature_row = <<>> THEN Returns(<<>>)
             ELSE Returns(ConstraintLoop(df, feature_row[1], 2, <<>>))

---------------------------------------------------------------------------
(* Input tables of the constraint extractor *)

\* injective sequences of length n over the set P
InjSeqs(P, n) == {q \in [1..n -> P] : \A i, j \in 1..n : q[i] = q[j] => i = j}

\* constraint column names: a real one that ends with a blank, a real one
\* with and without a trailing blank, the denylisted ones, plain and padded
\* as in the reference sheets, and a blank name
ColPool ==
    <<SoftSoilUnits,
      RaftsOrBoulders,
      Append(RaftsOrBoulders, " "),
      Unknown,
      Append(PotentiallyUnsuitable, " "),
      <<" ">> \o RequiresInvestigation,
      <<" ">> >>

\* the cell values rows are filled with, in a cycle
CellCycle ==
    <<S(<<"x">>), S(<<" ","X"," ">>), Null, S(<<"x","x">>), I(<<"1">>), S(<<>>)>>

CycleCell(k) == CellCycle[((k - 1) % Len(CellCycle)) + 1]

\* a row: its name cell, then n consecutive cells of the cycle from o on
RowOf(name, n, o) == <<name>> \o [i \in 1..n |-> CycleCell(o + i - 1)]

\* the rows of a table with n constraint columns: a row named "Sand" for
\* each position of the cycle, and one row of another feature, all marked
ColumnRows(n) ==
    {RowOf(S(Sand), n, o) : o \in 1..Len(CellCycle)}
    \cup {<<S(Gravel)>> \o [i \in 1..n |-> S(<<"x">>)]}

\* a table of the given constraint columns and rows
Table(cols, rows) == [columns |-> <<GeologicalFeature>> \o cols, rows |-> rows]

\* row names that differ from "Sand" in case, padding, by a prefix or by
\* a suffix, or are missing
NamePool ==
    {S(Sand), S(Lower(Sand)), S(Append(Sand, " ")), S(<<"S","a","n">>),
     S(Sand \o <<"s">>), Null}

\* the rows of a table with one constraint column and many row names
NameRows == {<<nm, c>> : nm \in NamePool, c \in {S(<<"x">>), Null}}

FeatureNames == {Sand, Lower(Sand), <<"S","a","n">>, Gravel}

---------------------------------------------------------------------------
(* The constraint extractor applied to drawn inputs *)

\* the functions are called on their own: no store, no session, no screen
NoApplication ==
    /\ store = [kind |-> "none"]
    /\ geo_constraints_data = EmptyFrame
    /\ eng_constraints_data = EmptyFrame
    /\ errors = <<>>
    /\ session_state = <<>>
    /\ screen = [view |-> "none", columns |-> <<>>]
    /\ cache = <<>>
    /\ reads = <<>>
    /\ peer_state = <<>>
    /\ peer_screen = [view |-> "none", columns |-> <<>>]

\* tables with many column names and cell values and few row names, asked
\* for "Sand" or for the feature whose row is marked throughout
InitColumnTables ==
    /\ \E n \in 0..MaxCols, m \in 0..MaxRows :
         \E q \in InjSeqs(1..Len(ColPool), n), rows \in [1..m -> ColumnRows(n)] :
            constraints_data = Table([i \in 1..n |-> ColPool[q[i]]], rows)
    /\ feature_name \in {Sand, Gravel}

\* tables with one constraint column and many row names, and the table of
\* a failed load, asked for each name
InitNameTables ==
    /\ \/ \E m \in 0..MaxRows : \E rows \in [1..m -> NameRows] :
            constraints_data = Table(<<RaftsOrBoulders>>, rows)
       \/ constraints_data = EmptyFrame
    /\ feature_name \in FeatureNames

InitConstraints ==
    /\ calls = <<>>
    /\ csv_files = <<>>
    /\ op = "get_constraints_for_feature"
    /\ pc = "input"
    /\ version = "matrix"
    /\ InitColumnTables \/ InitNameTables
    /\ geological_data = EmptyFrame
    /\ foundation_type = "Piles"
    /\ feature_data = NoneValue
    /\ ret = Returns(<<>>)
    /\ NoApplication

CallConstraints ==
    /\ op = "get_constraints_for_feature"
    /\ pc = "input"
    /\ ret' = get_constraints_for_feature(feature_name, constraints_data)
    /\ pc' = "done"
    /\ UNCHANGED <<csv_files, calls, op, version, constraints_data, feature_name, geological_data,
                   foundation_type, feature_data, app_vars>>

NextConstraints == CallConstraints

SpecConstraints == InitConstraints /\ [][NextConstraints]_vars

---------------------------------------------------------------------------
(* Properties of the constraint extractor *)

\* the extractor has returned
ConstraintsDone == op = "get_constraints_for_feature" /\ pc = "done"

\* the positions of the constraint columns (all columns but the first)
ConstraintColumns(df) == 2..Len(df.columns)

\* some row of df is named exactly name
HasRow(df, name) == \E i \in 1..Len(df.rows) : df.rows[i][1] = S(name)

\* the first row of df, in table order, that is named exactly name
FirstRow(df, name) ==
    df.rows[CHOOSE i \in 1..Len(df.rows) :
               /\ df.rows[i][1] = S(name)
               /\ \A k \in 1..(i - 1) : df.rows[k][1] # S(name)]

\* the cell, trimmed and lower-cased, is "x"
MarksX(cell) == cell.t # "null" /\ Lower(Strip(cell.s)) = <<"x">>

\* C1: the list returned by get_constraints_for_feature never contains
\* "Unknown", "Potentially unsuitable" or "Requires individual WTG siting
\* investigation", whatever the cells and however the column names are padded.
C1_DenylistExcluded ==
    ConstraintsDone =>
        /\ Unknown \notin Elems(ret.val)
        /\ PotentiallyUnsuitable \notin Elems(ret.val)
        /\ RequiresInvestigation \notin Elems(ret.val)

\* the matched row marks a denylisted column whose name is padded, and a
\* real constraint next to it is returned
C1_Witness ==
    /\ ConstraintsDone
    /\ HasRow(constraints_data, feature_name)
    /\ \E j \in ConstraintColumns(constraints_data) :
          /\ constraints_data.columns[j] \notin Denylist
          /\ Strip(constraints_data.columns[j]) \in Denylist
          /\ MarksX(FirstRow(constraints_data, feature_name)[j])
    /\ ret.val # <<>>

\* C2, as stated: for a name that matches a row, a constraint name is in the
\* list iff it is a non-denylisted column other than the first whose cell in
\* the first matching row, trimmed and lower-cased, is "x".
C2_ListIffMarkedColumn ==
    (ConstraintsDone /\ HasRow(constraints_data, feature_name)) =>
        \A n \in Elems(ret.val) \cup Elems(constraints_data.columns) :
            n \in Elems(ret.val) <=>
                \E j \in ConstraintColumns(constraints_data) :
                    /\ constraints_data.columns[j] = n
                    /\ n \notin Denylist
                    /\ MarksX(FirstRow(constraints_data, feature_name)[j])

\* C2, amended: for a name that matches a row, a name is in the list iff it
\* is the whitespace-trimmed name of a column other than the first, is not
\* empty and not denylisted, and the cell of the first matching row in that
\* column, trimmed and lower-cased, is "x".
C2_ListIffMarkedTrimmedColumn ==
    (ConstraintsDone /\ HasRow(constraints_data, feature_name)) =>
        \A n \in Elems(ret.val)
                 \cup {Strip(c) : c \in Elems(constraints_data.columns)} :
            n \in Elems(ret.val) <=>
                \E j \in ConstraintColumns(constraints_data) :
                    /\ Strip(constraints_data.columns[j]) = n
                    /\ n # <<>>
                    /\ n \notin Denylist
                    /\ MarksX(FirstRow(constraints_data, feature_name)[j])

\* the first matching row marks one column with " X " and leaves another
\* unmarked, and a later row of the same name marks differently
C2_Witness ==
    /\ ConstraintsDone
    /\ HasRow(constraints_data, feature_name)
    /\ \E j, k \in ConstraintColumns(constraints_data) :
          /\ FirstRow(constraints_data, feature_name)[j] = S(<<" ","X"," ">>)
          /\ Strip(constraints_data.columns[j]) \in Elems(ret.val)
          /\ ~MarksX(FirstRow(constraints_data, feature_name)[k])
          /\ Strip(constraints_data.columns[k]) \notin Elems(ret.val)
    /\ \E i \in 1..Len(constraints_data.rows) :
          /\ constraints_data.rows[i][1] = S(feature_name)
          /\ constraints_data.rows[i] # FirstRow(constraints_data, feature_name)

\* C3, as stated: every element of the list is one of the table's constraint
\* column names, and the elements are in the relative order of the columns.
C3_SubsetOfColumnsInOrder ==
    ConstraintsDone =>
        \E f \in [1..Len(ret.val) -> ConstraintColumns(constraints_data)] :
            /\ \A i \in 1..Len(ret.val) : constraints_data.columns[f[i]] = ret.val[i]
            /\ \A i, k \in 1..Len(ret.val) : i < k => f[i] < f[k]

\* C3, amended: every element of the list is the whitespace-trimmed name of
\* one of the table's constraint columns, and the elements are in the
\* relative order of those columns.
C3_TrimmedColumnsInOrder ==
    ConstraintsDone =>
        \E f \in [1..Len(ret.val) -> ConstraintColumns(constraints_data)] :
            /\ \A i \in 1..Len(ret.val) :
                  Strip(constraints_data.columns[f[i]]) = ret.val[i]
            /\ \A i, k \in 1..Len(ret.val) : i < k => f[i] < f[k]

\* two different constraints are returned, one from a padded column
C3_Witness ==
    /\ ConstraintsDone
    /\ Len(ret.val) = 2
    /\ ret.val[1] # ret.val[2]
    /\ ret.val[1] \notin Elems(constraints_data.columns)

\* C4: the extractor matches the name against the first column by strict
\* equality only: with no row named exactly so, or with an empty table, it
\* returns the empty list and raises nothing.
C4_StrictEqualityOrEmpty ==
    (ConstraintsDone
        /\ (Empty(constraints_data) \/ ~HasRow(constraints_data, feature_name)))
    => ret = Returns(<<>>)

\* rows named like the asked name up to case, padding, a prefix or a suffix
\* are marked, none is named exactly so, and nothing is returned
C4_Witness ==
    /\ ConstraintsDone
    /\ ~HasRow(constraints_data, feature_name)
    /\ \E i \in 1..Len(constraints_data.rows) :
          /\ constraints_data.rows[i][1].t = "str"
          /\ Lower(Strip(constraints_data.rows[i][1].s)) = Lower(feature_name)
          /\ constraints_data.rows[i][1].s # feature_name
          /\ constraints_data.rows[i][2] = S(<<"x">>)
    /\ ret = Returns(<<>>)

---------------------------------------------------------------------------
(* The feature resolver and the assessment accessor *)

HigherConstraint ==
    <<"H","i","g","h","e","r"," ","C","o","n","s","t","r","a","i","n","t">>
ModerateConstraint ==
    <<"M","o","d","e","r","a","t","e"," ","c","o","n","s","t","r","a","i","n","t">>
LowerConstraint ==
    <<"L","o","w","e","r"," ","C","o","n","s","t","r","a","i","n","t">>
DataNotAvailable ==
    <<"D","a","t","a"," ","n","o","t"," ","a","v","a","i","l","a","b","l","e">>
NoAssessmentAvailable ==
    <<"N","o"," ","a","s","s","e","s","s","m","e","n","t"," ",
      "a","v","a","i","l","a","b","l","e">>
AssessmentNotAvailable ==
    <<"A","s","s","e","s","s","m","e","n","t"," ","n","o","t"," ",
      "a","v","a","i","l","a","b","l","e">>
NoFeaturesMatchCriteria ==
    <<"N","o"," ","f","e","a","t","u","r","e","s"," ","m","a","t","c","h"," ",
      "c","r","i","t","e","r","i","a">>

FOUNDATION_TYPES == <<"Piles", "Suction Caisson", "GBS", "Cables">>

\* FOUNDATION_COLUMN_MAP with two columns exchanged
FOUNDATION_COLUMN_MAP_Swapped ==
    [ft \in Elems(FOUNDATION_TYPES) |->
        CASE ft = "Piles" -> "Piles_Assessment"
          [] ft = "Suction Caisson" -> "Suction_Caisson_Assessment"
          [] ft = "GBS" -> "Cables_Assessment"
          [] ft = "Cables" -> "GBS_Assessment"]

FOUNDATION_COLUMN_MAP ==
    [ft \in Elems(FOUNDATION_TYPES) |->
        CASE ft = "Piles" -> "Piles_Assessment"
          [] ft = "Suction Caisson" -> "Suction_Caisson_Assessment"
          [] ft = "GBS" -> "GBS_Assessment"
          [] ft = "Cables" -> "Cables_Assessment"]

\* assessment_mapping of matrix_simple.get_assessment
assessment_mapping ==
    [ft \in Elems(FOUNDATION_TYPES) |->
        CASE ft = "Piles" -> "Piles_Assessment"
          [] ft = "Suction Caisson" -> "Suction_Caisson_Assessment"
          [] ft = "GBS" -> "GBS_Assessment"
          [] ft = "Cables" -> "Cables_Assessment"]

\* dict.get(key): the value, or None (here the empty name)
Get(map, key) == IF key \in DOMAIN map THEN map[key] ELSE ""

\* the rows of df whose Geological_Feature equals name
FeatureRowsEqual(df, name) ==
    SelectSeq(df.rows,
              LAMBDA r : r[ColumnIndex(df, "Geological_Feature")] = S(name))

\* matrix.get_complete_feature_data, reading the table df
get_complete_feature_data(df, name) ==
    IF Empty(df) \/ name = NoFeaturesMatchCriteria THEN Returns(NoneValue)
    ELSE IF "Geological_Feature" \notin Elems(df.columns) THEN Raises("KeyError")
    ELSE LET selected == FeatureRowsEqual(df, name)
         IN  IF selected = <<>> THEN Returns(NoneValue)
             ELSE Returns(Series(df, selected[1]))

\* matrix_simple.get_feature_data, reading the table df
get_feature_data(df, name) ==
    IF Empty(df) THEN Returns(NoneValue)
    ELSE IF "Geological_Feature" \notin Elems(df.columns) THEN Raises("KeyError")
    ELSE IF \E i \in 1..Len(df.rows) :
               df.rows[i][ColumnIndex(df, "Geological_Feature")] = S(name)
         THEN LET selected == FeatureRowsEqual(df, name)
              IN  IF selected # <<>> THEN Returns(Series(df, selected[1]))
                  ELSE Returns(NoneValue)
         ELSE Returns(NoneValue)

\* an accessor that forgets the pd.notna test and hands out the null cell
get_assessment_NoNaTest(record, ft) ==
    IF IsNone(record) THEN Returns(S(DataNotAvailable))
    ELSE LET col_name == Get(FOUNDATION_COLUMN_MAP, ft)
         IN  IF col_name # "" /\ col_name \in DOMAIN record
             THEN Returns(record[col_name])
             ELSE Returns(S(AssessmentNotAvailable))

\* matrix.get_assessment
get_assessment(record, ft) ==
    IF IsNone(record) THEN Returns(S(DataNotAvailable))
    ELSE LET col_name == Get(FOUNDATION_COLUMN_MAP, ft)
         IN  IF col_name # "" /\ col_name \in DOMAIN record
             THEN IF ~IsNa(record[col_name]) THEN Returns(record[col_name])
                  ELSE Returns(S(NoAssessmentAvailable))
             ELSE Returns(S(AssessmentNotAvailable))

\* matrix_simple.get_assessment
get_assessment_simple(record, ft) ==
    IF IsNone(record) THEN Returns(S(DataNotAvailable))
    ELSE LET col_name == Get(assessment_mapping, ft)
         IN  IF col_name # "" /\ col_name \in DOMAIN record
             THEN IF ~IsNa(record[col_name]) THEN Returns(record[col_name])
                  ELSE Returns(S(NoAssessmentAvailable))
             ELSE Returns(S(AssessmentNotAvailable))

---------------------------------------------------------------------------
(* Input tables of the resolver *)

\* the columns load_geological_data selects
FeatureColumns ==
    <<"Geological_Feature", "Setting", "Constraint_Type", "Definition",
      "Piles_Assessment", "Suction_Caisson_Assessment", "GBS_Assessment",
      "Cables_Assessment", "Dominant_Constraint", "Comments", "References">>

\* a table that lacks one of the assessment columns
ColumnsWithoutGBS == SelectSeq(FeatureColumns, LAMBDA c : c # "GBS_Assessment")

AssessmentColumns ==
    <<"Piles_Assessment", "Suction_Caisson_Assessment", "GBS_Assessment",
      "Cables_Assessment">>

\* the assessment cells rows are filled with, in a cycle: the three labels,
\* a missing value, and a label as extract_data.py accepts it (any cell
\* that contains "constraint", whatever its case)
AssessmentCycle ==
    <<S(LowerConstraint), S(ModerateConstraint), S(HigherConstraint),
      S(LowerConstraint), Null, S(Lower(HigherConstraint))>>

\* a free-text cell: absent on the rows of an odd position of the cycle
TextCell(c, o) ==
    IF o % 2 = 1 THEN Null
    ELSE IF c = "References" THEN S(<<" ","r","e","f"," ">>)
    ELSE S(<<"t","e","x","t">>)

\* a row of a features table with the columns cols: its name, its four
\* assessments from position o of the cycle on, its texts
FeatureRow(cols, name, o) ==
    [i \in 1..Len(cols) |->
        IF cols[i] = "Geological_Feature" THEN name
        ELSE IF \E k \in 1..4 : AssessmentColumns[k] = cols[i]
        THEN LET k == CHOOSE k \in 1..4 : AssessmentColumns[k] = cols[i]
             IN  AssessmentCycle[((o + k - 2) % Len(AssessmentCycle)) + 1]
        ELSE TextCell(cols[i], o)]

\* the rows of a features table: "Sand" at each position of the cycle,
\* another feature, a row named like the resolver's guard, a row with no name
FeatureRows(cols) ==
    {FeatureRow(cols, S(Sand), o) : o \in 1..Len(AssessmentCycle)}
    \cup {FeatureRow(cols, S(Gravel), 2),
          FeatureRow(cols, S(NoFeaturesMatchCriteria), 1),
          FeatureRow(cols, Null, 3)}

\* the entry of the feature list when there is no data, in matrix.py and
\* in matrix_simple.py
NoFeaturesAvailable ==
    <<"N","o"," ","f","e","a","t","u","r","e","s"," ","a","v","a","i","l",
      "a","b","l","e">>
NoDataAvailable ==
    <<"N","o"," ","d","a","t","a"," ","a","v","a","i","l","a","b","l","e">>

\* the names asked for: present ones, one that differs in case only, the
\* entries the feature list has when there is no data
LookupNames ==
    {Sand, Gravel, Lower(Sand), NoFeaturesMatchCriteria,
     NoFeaturesAvailable, NoDataAvailable}

\* the foundation types asked for: the four of the tool and another one
FoundationInputs == Elems(FOUNDATION_TYPES) \cup {"Monopile"}

---------------------------------------------------------------------------
(* The resolver, then the accessor, applied to drawn inputs *)

InitLookup ==
    /\ calls = <<>>
    /\ csv_files = <<>>
    /\ op = "lookup"
    /\ pc = "input"
    /\ version \in {"matrix", "matrix_simple"}
    /\ constraints_data = EmptyFrame
    /\ feature_name \in LookupNames
    /\ \E cols \in {FeatureColumns, ColumnsWithoutGBS}, m \in 0..MaxRows :
         \E rows \in [1..m -> FeatureRows(cols)] :
            geological_data = [columns |-> cols, rows |-> rows]
    /\ foundation_type \in FoundationInputs
    /\ feature_data = NoneValue
    /\ ret = Returns(<<>>)
    /\ NoApplication

\* feature_data = get_complete_feature_data(name)   (matrix.py)
\* feature_data = get_feature_data(name)            (matrix_simple.py)
Resolve ==
    /\ op = "lookup"
    /\ pc = "input"
    /\ LET r == IF version = "matrix"
                THEN get_complete_feature_data(geological_data, feature_name)
                ELSE get_feature_data(geological_data, feature_name)
       IN  IF r.exc = "none"
           THEN feature_data' = r.val /\ pc' = "resolved" /\ ret' = ret
           ELSE feature_data' = feature_data /\ pc' = "done" /\ ret' = r
    /\ UNCHANGED <<csv_files, calls, op, version, constraints_data, feature_name, geological_data,
                   foundation_type, app_vars>>

\* assessment = get_assessment(feature_data, foundation_type)
Assess ==
    /\ op = "lookup"
    /\ pc = "resolved"
    /\ ret' = IF version = "matrix"
              THEN get_assessment(feature_data, foundation_type)
              ELSE get_assessment_simple(feature_data, foundation_type)
    /\ pc' = "done"
    /\ UNCHANGED <<csv_files, calls, op, version, constraints_data, feature_name, geological_data,
                   foundation_type, feature_data, app_vars>>

NextLookup == Resolve \/ Assess

SpecLookup == InitLookup /\ [][NextLookup]_vars

---------------------------------------------------------------------------
(* Properties of the resolver and of the accessor *)

\* the resolver has returned
Resolved == op = "lookup" /\ pc \in {"resolved", "done"}

\* the accessor has returned
AssessmentDone == op = "lookup" /\ pc = "done"

\* the Geological_Feature cell of row i
NameCell(df, i) == df.rows[i][ColumnIndex(df, "Geological_Feature")]

\* name is present in the Geological_Feature column
NamePresent(df, name) == \E i \in 1..Len(df.rows) : NameCell(df, i) = S(name)

\* the first row, in table order, whose Geological_Feature is name
FirstFeatureRow(df, name) ==
    df.rows[CHOOSE i \in 1..Len(df.rows) :
               /\ NameCell(df, i) = S(name)
               /\ \A k \in 1..(i - 1) : NameCell(df, k) # S(name)]

\* C5: for a name present in the Geological_Feature column the resolver of
\* either version returns the first row, in table order, whose
\* Geological_Feature equals the name, and never None.
C5_PresentNameResolvesToFirstRow ==
    (Resolved /\ NamePresent(geological_data, feature_name)) =>
        feature_data = Series(geological_data,
                              FirstFeatureRow(geological_data, feature_name))

\* what the resolvers do give: the first row of that name, except that
\* matrix.py gives None for the name "No features match criteria"
ResolverFirstRowButGuard ==
    (Resolved /\ NamePresent(geological_data, feature_name)) =>
        IF version = "matrix" /\ feature_name = NoFeaturesMatchCriteria
        THEN feature_data = NoneValue
        ELSE feature_data = Series(geological_data,
                                   FirstFeatureRow(geological_data, feature_name))

\* the three assessment labels
Labels == {S(HigherConstraint), S(ModerateConstraint), S(LowerConstraint)}

\* the texts the accessor gives when there is no value
Sentinels ==
    {S(DataNotAvailable), S(NoAssessmentAvailable), S(AssessmentNotAvailable)}

\* C7, as stated: for every resolved record and every foundation type of
\* the tool, get_assessment returns one of the three labels or a "not
\* available" text, and nothing else.
C7_AssessmentInClosedSet ==
    (AssessmentDone /\ ~IsNone(feature_data)
        /\ foundation_type \in Elems(FOUNDATION_TYPES))
    => (ret.exc = "none" /\ ret.val \in Labels \cup Sentinels)

\* every assessment cell of the record is one of the three labels or null
CleanRecord(record) ==
    \A k \in 1..4 :
        AssessmentColumns[k] \in DOMAIN record
            => record[AssessmentColumns[k]] \in Labels \cup {Null}

\* C7, amended: for every resolved record whose assessment cells are each
\* one of the three labels or null, and every foundation type of the tool,
\* get_assessment returns one of the three labels, "No assessment
\* available" or "Assessment not available".
C7_AssessmentInClosedSetOfCleanRecord ==
    (AssessmentDone /\ ~IsNone(feature_data) /\ CleanRecord(feature_data)
        /\ foundation_type \in Elems(FOUNDATION_TYPES))
    => /\ ret.exc = "none"
       /\ ret.val \in Labels \cup {S(NoAssessmentAvailable),
                                  S(AssessmentNotAvailable)}

\* a record with a missing assessment is resolved and a label of it returned
C7_Witness ==
    /\ AssessmentDone
    /\ ~IsNone(feature_data)
    /\ CleanRecord(feature_data)
    /\ \E k \in 1..4 : AssessmentColumns[k] \in DOMAIN feature_data
                       /\ feature_data[AssessmentColumns[k]] = Null
    /\ foundation_type = "GBS"
    /\ ret.val = S(LowerConstraint)

\* the column the claim maps a foundation type to
MappedColumn(ft) ==
    CASE ft = "Piles" -> "Piles_Assessment"
      [] ft = "Suction Caisson" -> "Suction_Caisson_Assessment"
      [] ft = "GBS" -> "GBS_Assessment"
      [] ft = "Cables" -> "Cables_Assessment"
      [] OTHER -> ""

\* the record has a value for the foundation type
ValuePresent(record, ft) ==
    /\ ~IsNone(record)
    /\ MappedColumn(ft) \in DOMAIN record
    /\ record[MappedColumn(ft)] # Null

\* the accessor of the version at hand
Accessor(record, ft) ==
    IF version = "matrix" THEN get_assessment(record, ft)
    ELSE get_assessment_simple(record, ft)

\* C8, as stated: get_assessment returns the value of the mapped column
\* unchanged when it is present, and one and the same "not available" text
\* when the record is missing, the column is missing, the cell is null or
\* the foundation type is not of the tool; it never raises.
C8_PureLookupSingleSentinel ==
    AssessmentDone =>
        /\ ret.exc = "none"
        /\ IF ValuePresent(feature_data, foundation_type)
           THEN ret.val = feature_data[MappedColumn(foundation_type)]
           ELSE \A record \in {NoneValue, feature_data}, ft \in FoundationInputs :
                    ~ValuePresent(record, ft) => Accessor(record, ft) = ret

\* C8, amended: get_assessment returns the value of the mapped column
\* unchanged when it is present, "Data not available" when the record is
\* missing, "Assessment not available" when the foundation type is not of
\* the tool or its column is missing, "No assessment available" when the
\* cell is null; it never raises.
C8_PureLookupThreeSentinels ==
    AssessmentDone =>
        /\ ret.exc = "none"
        /\ ret.val =
             IF IsNone(feature_data) THEN S(DataNotAvailable)
             ELSE IF MappedColumn(foundation_type) \notin DOMAIN feature_data
                  THEN S(AssessmentNotAvailable)
             ELSE IF feature_data[MappedColumn(foundation_type)] = Null
                  THEN S(NoAssessmentAvailable)
             ELSE feature_data[MappedColumn(foundation_type)]

\* a record whose cell for the type is null gave "No assessment available",
\* and the same record has a value for another type and lacks a column
C8_Witness ==
    /\ AssessmentDone
    /\ ~IsNone(feature_data)
    /\ foundation_type = "Cables"
    /\ feature_data["Cables_Assessment"] = Null
    /\ ret.val = S(NoAssessmentAvailable)
    /\ ValuePresent(feature_data, "Piles")
    /\ "GBS_Assessment" \notin DOMAIN feature_data

---------------------------------------------------------------------------
(* The backing stores and the table loaders *)

\* a Python exception class and the classes it inherits from: an except
\* clause catches an exception when it names one of these
Ancestors(e) ==
    CASE e = "FileNotFoundError" ->
            {"FileNotFoundError", "OSError", "Exception"}
      [] e = "sqlite3.OperationalError" ->
            {"sqlite3.OperationalError", "sqlite3.DatabaseError",
             "sqlite3.Error", "Exception"}
      [] e = "pandas.errors.DatabaseError" ->
            {"pandas.errors.DatabaseError", "OSError", "Exception"}
      [] e = "pandas.errors.ParserError" ->
            {"pandas.errors.ParserError", "ValueError", "Exception"}
      [] e = "pandas.errors.EmptyDataError" ->
            {"pandas.errors.EmptyDataError", "ValueError", "Exception"}
      [] e = "UnicodeDecodeError" ->
            {"UnicodeDecodeError", "UnicodeError", "ValueError", "Exception"}

\* the except clauses of matrix.load_geological_data, in order
GeologicalHandlers ==
    <<[catches |-> "FileNotFoundError",
       message |-> "{GEOPACKAGE_PATH} not found. Please ensure the data file is in the correct location."],
      [catches |-> "sqlite3.DatabaseError",
       message |-> "Database error loading geological data: {e}"],
      [catches |-> "Exception",
       message |-> "Error loading geological data from GeoPackage: {e}"]>>

\* the except clauses of matrix.load_constraint_data, in order
ConstraintHandlers ==
    <<[catches |-> "sqlite3.DatabaseError",
       message |-> "Database error loading constraint data: {e}"],
      [catches |-> "Exception",
       message |-> "Error loading constraint data from GeoPackage: {e}"]>>

\* the except clauses of matrix_simple.load_geological_data, in order
SimpleHandlers ==
    <<[catches |-> "FileNotFoundError",
       message |-> "geological_data_updated.csv not found. Please ensure the data file is in the correct location."],
      [catches |-> "pandas.errors.ParserError",
       message |-> "Error parsing CSV file: {e}"]>>

\* what a loader gives back: the exception that escapes it or its value,
\* the messages it emitted with st.error, and the store as it left it
Loaded(v, st) == [exc |-> "none", val |-> v, errors |-> <<>>, store |-> st]

\* try: raise e / except ...: the first clause that catches e emits its
\* message and returns empty; with no such clause e escapes
Handle(e, handlers, empty, st) ==
    IF \E i \in 1..Len(handlers) : handlers[i].catches \in Ancestors(e)
    THEN LET i == CHOOSE i \in 1..Len(handlers) :
                    /\ handlers[i].catches \in Ancestors(e)
                    /\ \A j \in 1..(i - 1) :
                          handlers[j].catches \notin Ancestors(e)
         IN  [exc |-> "none", val |-> empty,
              errors |-> <<handlers[i].message>>, store |-> st]
    ELSE [exc |-> e, val |-> empty, errors |-> <<>>, store |-> st]

\* sqlite3.connect(GEOPACKAGE_PATH): fails when the directory of the path
\* is missing; creates an empty database file when only the file is missing
Connect(st) ==
    IF st.kind = "no_directory" THEN Raises("sqlite3.OperationalError")
    ELSE IF st.kind = "no_file"
    THEN Returns([kind |-> "database", tables |-> <<>>, undecodable |-> {}])
    ELSE Returns(st)

\* the columns cols of the table data, in the order of cols
Project(data, cols) ==
    [columns |-> cols,
     rows |-> [i \in 1..Len(data.rows) |->
                 [j \in 1..Len(cols) |->
                     data.rows[i][ColumnIndex(data, cols[j])]]]]

\* pd.read_sql_query("SELECT cols FROM t", conn); cols = <<>> stands for *.
\* pandas wraps every error of the execution of the query in its own
\* DatabaseError; text that is not UTF-8 fails later, when rows are fetched
ReadSqlQuery(st, t, cols) ==
    IF st.kind = "not_a_database" THEN Raises("pandas.errors.DatabaseError")
    ELSE IF t \notin DOMAIN st.tables THEN Raises("pandas.errors.DatabaseError")
    ELSE IF \E j \in 1..Len(cols) : cols[j] \notin Elems(st.tables[t].columns)
    THEN Raises("pandas.errors.DatabaseError")
    ELSE IF t \in st.undecodable THEN Raises("sqlite3.OperationalError")
    ELSE IF cols = <<>> THEN Returns(st.tables[t])
    ELSE Returns(Project(st.tables[t], cols))

\* matrix.load_geological_data
load_geological_data(st) ==
    LET conn == Connect(st)
    IN  IF conn.exc # "none"
        THEN Handle(conn.exc, GeologicalHandlers, EmptyFrame, st)
        ELSE LET df == ReadSqlQuery(conn.val, "geological_features",
                                    FeatureColumns)
             IN  IF df.exc # "none"
                 THEN Handle(df.exc, GeologicalHandlers, EmptyFrame, conn.val)
                 ELSE Loaded(df.val, conn.val)

\* matrix.load_constraint_data: a pair of tables
load_constraint_data(st) ==
    LET empty == <<EmptyFrame, EmptyFrame>>
        conn == Connect(st)
    IN  IF conn.exc # "none"
        THEN Handle(conn.exc, ConstraintHandlers, empty, st)
        ELSE LET geo_constraints ==
                     ReadSqlQuery(conn.val, "geological_constraints", <<>>)
                 eng_constraints ==
                     ReadSqlQuery(conn.val, "engineering_constraints", <<>>)
             IN  IF geo_constraints.exc # "none"
                 THEN Handle(geo_constraints.exc, ConstraintHandlers, empty,
                             conn.val)
                 ELSE IF eng_constraints.exc # "none"
                 THEN Handle(eng_constraints.exc, ConstraintHandlers, empty,
                             conn.val)
                 ELSE Loaded(<<geo_constraints.val, eng_constraints.val>>,
                             conn.val)

\* pd.read_csv("geological_data_comprehensive.csv")
ReadCsv(st) ==
    CASE st.kind \in {"no_directory", "no_file"} -> Raises("FileNotFoundError")
      [] st.kind = "empty_file" -> Raises("pandas.errors.EmptyDataError")
      [] st.kind = "malformed" -> Raises("pandas.errors.ParserError")
      [] st.kind = "not_utf8" -> Raises("UnicodeDecodeError")
      [] st.kind = "csv" -> Returns(st.data)

\* matrix_simple.load_geological_data
load_geological_data_simple(st) ==
    LET df == ReadCsv(st)
    IN  IF df.exc # "none"
        THEN Handle(df.exc, SimpleHandlers, EmptyFrame, st)
        ELSE Loaded(df.val, st)

---------------------------------------------------------------------------
(* The feature list and the selection widgets *)

NoDefinitionAvailable ==
    <<"N","o"," ","d","e","f","i","n","i","t","i","o","n"," ","a","v","a",
      "i","l","a","b","l","e">>
NoGeologicalConstraintsIdentified ==
    <<"N","o"," ","g","e","o","l","o","g","i","c","a","l"," ","c","o","n",
      "s","t","r","a","i","n","t","s"," ","i","d","e","n","t","i","f","i",
      "e","d">>
NoEngineeringConstraintsIdentified ==
    <<"N","o"," ","e","n","g","i","n","e","e","r","i","n","g"," ","c","o",
      "n","s","t","r","a","i","n","t","s"," ","i","d","e","n","t","i","f",
      "i","e","d">>
NoAssessmentDataAvailable ==
    <<"N","o"," ","a","s","s","e","s","s","m","e","n","t"," ","d","a","t",
      "a"," ","a","v","a","i","l","a","b","l","e">>
NoEngineeringCommentsAvailable ==
    <<"N","o"," ","e","n","g","i","n","e","e","r","i","n","g"," ","c","o",
      "m","m","e","n","t","s"," ","a","v","a","i","l","a","b","l","e">>
NoCommentsAvailable ==
    <<"N","o"," ","c","o","m","m","e","n","t","s"," ","a","v","a","i","l",
      "a","b","l","e">>
NoReferencesAvailable ==
    <<"N","o"," ","r","e","f","e","r","e","n","c","e","s"," ","a","v","a",
      "i","l","a","b","l","e">>
NoneIdentified ==
    <<"N","o","n","e"," ","i","d","e","n","t","i","f","i","e","d">>

\* ord(c) of the characters of feature names
CodePoint(c) ==
    IF c = " " THEN 32
    ELSE IF \E i \in 1..26 : UpperAlpha[i] = c
    THEN 64 + (CHOOSE i \in 1..26 : UpperAlpha[i] = c)
    ELSE 96 + (CHOOSE i \in 1..26 : LowerAlpha[i] = c)

\* a < b for two Python strings: code point by code point, a proper prefix
\* first
StrLess(a, b) ==
    \E k \in 1..(Len(b)) :
        /\ k <= Len(a) + 1
        /\ \A i \in 1..(k - 1) : a[i] = b[i]
        /\ \/ k = Len(a) + 1
           \/ CodePoint(a[k]) < CodePoint(b[k])

\* sorted(...) of a set of distinct strings
RECURSIVE Sorted(_)
Sorted(names) ==
    IF names = {} THEN <<>>
    ELSE LET least == CHOOSE x \in names :
                          \A y \in names \ {x} : StrLess(x, y)
         IN  <<least>> \o Sorted(names \ {least})

\* sorted(df['Geological_Feature'].dropna().unique().tolist())
FeatureList(df) ==
    LET k == ColumnIndex(df, "Geological_Feature")
    IN  Sorted({Str(df.rows[i][k]) :
                  i \in {j \in 1..Len(df.rows) : ~IsNa(df.rows[j][k])}})

\* the module-level list GEOLOGICAL_FEATURES of each version
GEOLOGICAL_FEATURES(v, df) ==
    IF ~Empty(df) THEN FeatureList(df)
    ELSE IF v = "matrix" THEN <<NoFeaturesAvailable>>
    ELSE <<NoDataAvailable>>

\* st.selectbox(options, index): the option at index (from 0), or None
\* when there is no option
Option(options, index) ==
    IF options = <<>> THEN Null ELSE S(options[index + 1])

\* the values the widgets take when their keys are not in the session state
Defaults(v, options) ==
    LET feature1 == Option(options, 0)
        feature2 == Option(options, IF Len(options) > 1 THEN 1 ELSE 0)
    IN  IF v = "matrix"
        THEN [feature1 |-> feature1, feature2 |-> feature2]
        ELSE [feature1 |-> feature1, feature2 |-> feature2,
              foundation |-> FOUNDATION_TYPES[1]]

\* the options of the widget of each key
OptionsOf(key, options) ==
    IF key = "foundation" THEN Elems(FOUNDATION_TYPES)
    ELSE {S(options[i]) : i \in 1..Len(options)}

---------------------------------------------------------------------------
(* The comparison renderer *)

\* a displayed block: the kind of markup and its lines
Block(kind, lines) == [kind |-> kind, lines |-> lines]

\* a fixed text shown where there is nothing to show
Placeholder(text) == Block("text", <<text>>)

\* a cell inside an f-string: a missing value reads "None" when it comes
\* from the database and "nan" when it comes from the CSV file
Format(v, cell) ==
    IF ~IsNa(cell) THEN Str(cell)
    ELSE IF v = "matrix" THEN <<"N","o","n","e">> ELSE <<"n","a","n">>

\* get_complete_feature_data / get_feature_data of the selected value; the
\* value is None when the feature list is empty, and no row compares equal
\* to None
ResolveSelected(v, df, selected) ==
    IF IsNa(selected) THEN Returns(NoneValue)
    ELSE IF v = "matrix" THEN get_complete_feature_data(df, Str(selected))
    ELSE get_feature_data(df, Str(selected))

\* get_constraints_for_feature of the selected value
ConstraintsOfSelected(selected, df) ==
    IF IsNa(selected) THEN Returns(<<>>)
    ELSE get_constraints_for_feature(Str(selected), df)

\* matrix.render_geological_characteristics_card
render_geological_characteristics_card(record) ==
    IF IsNone(record) THEN Placeholder(NoDataAvailable)
    ELSE LET definition_text ==
                 IF ~IsNa(record["Definition"])
                 THEN Str(record["Definition"])
                 ELSE NoDefinitionAvailable
         IN  Block("fields",
                   <<Format("matrix", record["Setting"]),
                     Format("matrix", record["Constraint_Type"]),
                     Format("matrix", record["Dominant_Constraint"]),
                     definition_text>>)

\* a constraints block that lists the pills even when there are none
ConstraintPills_NoFallback(constraints, none_text) ==
    Block("pills", constraints)

\* one sub-list of the constraints card of matrix.py: pills, or the text
\* for an empty list
ConstraintPills(constraints, none_text) ==
    IF constraints # <<>> THEN Block("pills", constraints)
    ELSE Placeholder(none_text)

\* a foundation block that lists the four types whatever the record
MatrixFoundationBlock_AllTypes(record) ==
    Block("assessments",
          [k \in 1..Len(FOUNDATION_TYPES) |->
              [foundation_type |-> FOUNDATION_TYPES[k],
               assessment |->
                   Str(get_assessment(record, FOUNDATION_TYPES[k]).val)]])

\* the foundation assessment block of matrix.py
MatrixFoundationBlock(record) ==
    IF ~IsNone(record)
    THEN Block("assessments",
               [k \in 1..Len(FOUNDATION_TYPES) |->
                   [foundation_type |-> FOUNDATION_TYPES[k],
                    assessment |->
                        Str(get_assessment(record,
                                           FOUNDATION_TYPES[k]).val)]])
    ELSE Placeholder(NoAssessmentDataAvailable)

\* a comments block with one text for a missing record and a missing
\* comment
MatrixCommentsBlock_OneText(record) ==
    IF ~IsNone(record) /\ ~IsNa(record["Comments"])
    THEN Block("text", <<Str(record["Comments"])>>)
    ELSE Placeholder(NoCommentsAvailable)

\* the engineering comments block of matrix.py
MatrixCommentsBlock(record) ==
    IF ~IsNone(record)
    THEN IF ~IsNa(record["Comments"])
         THEN Block("text", <<Str(record["Comments"])>>)
         ELSE Placeholder(NoCommentsAvailable)
    ELSE Placeholder(NoEngineeringCommentsAvailable)

\* matrix.format_references: the trimmed text, or None (here the empty text)
format_references(references_text) ==
    IF IsNa(references_text) \/ Strip(Str(references_text)) = <<>> THEN <<>>
    ELSE Strip(Str(references_text))

\* the references block of matrix.py
MatrixReferencesBlock(record) ==
    IF ~IsNone(record)
    THEN LET references_text ==
                 format_references(IF "References" \in DOMAIN record
                                   THEN record["References"] ELSE Null)
         IN  IF references_text # <<>> THEN Block("text", <<references_text>>)
             ELSE Placeholder(NoReferencesAvailable)
    ELSE Placeholder(NoReferencesAvailable)

\* one column of the comparison of matrix.py, for the selected value
MatrixColumn(tables, selected) ==
    LET record ==
            ResolveSelected("matrix", tables.geological_data, selected).val
        geo_constraints ==
            ConstraintsOfSelected(selected, tables.geo_constraints_data).val
        eng_constraints ==
            ConstraintsOfSelected(selected, tables.eng_constraints_data).val
    IN  [feature |-> selected,
         feature_data |-> record,
         characteristics |->
             render_geological_characteristics_card(record),
         geological_constraints |->
             ConstraintPills(geo_constraints,
                             NoGeologicalConstraintsIdentified),
         engineering_constraints |->
             ConstraintPills(eng_constraints,
                             NoEngineeringConstraintsIdentified),
         foundation |-> MatrixFoundationBlock(record),
         comments |-> MatrixCommentsBlock(record),
         references |-> MatrixReferencesBlock(record)]

\* s.split(sep): the pieces of the text s between the occurrences of the
\* character sep
Split(s, sep) ==
    LET at == SelectSeq([i \in 1..Len(s) |-> i], LAMBDA i : s[i] = sep)
        cuts == <<0>> \o at \o <<Len(s) + 1>>
    IN  [k \in 1..(Len(cuts) - 1) |-> SubSeq(s, cuts[k] + 1, cuts[k + 1] - 1)]

\* [c.strip() for c in str(text).split(';') if c.strip()]
SplitConstraints(text) ==
    LET items == Split(text, ";")
        kept == SelectSeq(items, LAMBDA c : Strip(c) # <<>>)
    IN  [i \in 1..Len(kept) |-> Strip(kept[i])]

\* a list read from the dominant constraint of the record
get_active_constraints_Dominant(record) ==
    IF IsNone(record) \/ "Dominant_Constraint" \notin DOMAIN record
    THEN <<>>
    ELSE LET constraints_str == record["Dominant_Constraint"]
         IN  IF IsNa(constraints_str) \/ Str(constraints_str) = <<>>
             THEN <<>>
             ELSE SplitConstraints(Str(constraints_str))

\* matrix_simple.get_active_constraints
get_active_constraints(record) ==
    IF IsNone(record) \/ "Active_Constraints" \notin DOMAIN record
    THEN <<>>
    ELSE LET constraints_str == record["Active_Constraints"]
         IN  IF IsNa(constraints_str) \/ Str(constraints_str) = <<>>
             THEN <<>>
             ELSE SplitConstraints(Str(constraints_str))

\* matrix_simple.get_engineering_constraints
get_engineering_constraints(record) ==
    IF IsNone(record)
       \/ "Engineering_Constraints" \notin DOMAIN record
    THEN <<>>
    ELSE LET constraints_str == record["Engineering_Constraints"]
         IN  IF IsNa(constraints_str) \/ Str(constraints_str) = <<>>
             THEN <<>>
             ELSE SplitConstraints(Str(constraints_str))

\* sub in s, for two Python strings
Contains(s, sub) ==
    \E i \in 1..(Len(s) + 1) :
        /\ i + Len(sub) - 1 <= Len(s)
        /\ SubSeq(s, i, i + Len(sub) - 1) = sub

\* matrix_simple.get_complexity_level
get_complexity_level(assessment) ==
    LET assessment_str == Lower(assessment)
    IN  IF Contains(assessment_str, Lower(HigherConstraint)) THEN "High"
        ELSE IF Contains(assessment_str, Lower(ModerateConstraint))
        THEN "Medium"
        ELSE IF Contains(assessment_str, Lower(LowerConstraint)) THEN "Low"
        ELSE "Unknown"

\* the foundation assessment block of matrix_simple.py: the selected type
SimpleFoundationBlock(record, foundation) ==
    LET assessment == Str(get_assessment_simple(record, foundation).val)
    IN  Block("assessments",
              <<[foundation_type |-> foundation,
                 assessment |-> assessment,
                 complexity |-> get_complexity_level(assessment)]>>)

\* one column of the comparison of matrix_simple.py
SimpleColumn(tables, selected, foundation) ==
    LET record ==
            ResolveSelected("matrix_simple", tables.geological_data,
                            selected).val
        geo_constraints == get_active_constraints(record)
        eng_constraints == get_engineering_constraints(record)
    IN  [feature |-> selected,
         feature_data |-> record,
         characteristics |->
             IF ~IsNone(record)
             THEN Block("fields",
                        <<Format("matrix_simple", record["Setting"]),
                          Format("matrix_simple", record["Process"]),
                          Format("matrix_simple",
                                 record["Dominant_Constraint"])>>)
             ELSE Placeholder(NoDataAvailable),
         geological_constraints |->
             ConstraintPills(geo_constraints, NoneIdentified),
         engineering_constraints |->
             ConstraintPills(eng_constraints, NoneIdentified),
         foundation |-> SimpleFoundationBlock(record, foundation),
         definition |->
             IF ~IsNone(record) /\ ~IsNa(record["Definition"])
             THEN Block("text", <<Str(record["Definition"])>>)
             ELSE Placeholder(NoDefinitionAvailable),
         comments |->
             IF ~IsNone(record) /\ ~IsNa(record["Comments"])
             THEN Block("text", <<Str(record["Comments"])>>)
             ELSE Placeholder(NoCommentsAvailable)]

\* what one run of the script displays for the session's selection
Render(v, tables, session) ==
    IF v = "matrix"
    THEN [view |-> "comparison",
          columns |-> <<MatrixColumn(tables, session.feature1),
                        MatrixColumn(tables, session.feature2)>>]
    ELSE IF ~IsNa(session.feature1) /\ ~IsNa(session.feature2)
            /\ Str(session.feature1) # <<>> /\ Str(session.feature2) # <<>>
    THEN [view |-> "comparison",
          columns |-> <<SimpleColumn(tables, session.feature1,
                                     session.foundation),
                        SimpleColumn(tables, session.feature2,
                                     session.foundation)>>]
    ELSE [view |-> "welcome", columns |-> <<>>]

---------------------------------------------------------------------------
(* The stores the application is started on *)

\* the columns of the features table as the preparation scripts write it
StoredFeatureColumns ==
    <<"Geological_Feature", "Setting", "Process", "Constraint_Type",
      "Definition", "Cables_Assessment", "GBS_Assessment",
      "Suction_Caisson_Assessment", "Piles_Assessment",
      "Dominant_Constraint", "Comments", "References">>

\* the columns of geological_data_comprehensive.csv
SimpleColumns ==
    <<"Geological_Feature", "Setting", "Process", "Definition",
      "Piles_Assessment", "Suction_Caisson_Assessment", "GBS_Assessment",
      "Cables_Assessment", "Dominant_Constraint", "Comments",
      "Active_Constraints", "Engineering_Constraints">>

\* the columns of a CSV file written before the constraint columns existed
SimpleColumnsOld == SubSeq(SimpleColumns, 1, 10)

\* two features, stored in an order that is not the sorted one
TwoFeatures(cols) ==
    [columns |-> cols,
     rows |-> <<FeatureRow(cols, S(Sand), 1), FeatureRow(cols, S(Gravel), 2)>>]

\* the stored contents of geological_features: two features, no row, one
\* row without a name, a table that lacks a selected column
StoredFeatureTables ==
    {TwoFeatures(StoredFeatureColumns),
     [columns |-> StoredFeatureColumns, rows |-> <<>>],
     [columns |-> StoredFeatureColumns,
      rows |-> <<FeatureRow(StoredFeatureColumns, Null, 3)>>],
     TwoFeatures(SelectSeq(StoredFeatureColumns,
                           LAMBDA c : c # "GBS_Assessment"))}

\* the stored contents of geological_constraints: the two features, and
\* the same with a row named like the placeholder of the feature list
StoredGeoConstraintTables ==
    {Table(<<Append(RaftsOrBoulders, " "), Unknown>>,
           <<<<S(Sand), S(<<"x">>), S(<<"x">>)>>,
             <<S(Gravel), Null, S(<<"x">>)>>>>),
     Table(<<Append(RaftsOrBoulders, " "), Unknown>>,
           <<<<S(Sand), S(<<"x">>), S(<<"x">>)>>,
             <<S(NoFeaturesAvailable), S(<<"x">>), Null>>>>)}

\* the stored contents of engineering_constraints
StoredEngConstraintTables ==
    {Table(<<SoftSoilUnits>>,
           <<<<S(Sand), Null>>, <<S(Gravel), S(<<"X">>)>>>>)}

\* the contents a table of the database can have
StoredTables(t) ==
    CASE t = "geological_features" -> StoredFeatureTables
      [] t = "geological_constraints" -> StoredGeoConstraintTables
      [] t = "engineering_constraints" -> StoredEngConstraintTables

TableNames ==
    {"geological_features", "geological_constraints",
     "engineering_constraints"}

\* data/geological_data.gpkg: its directory or the file missing, a file
\* that is not a database, or a database with some of the three tables,
\* one of which may hold text that is not UTF-8
GeoPackages ==
    {[kind |-> k] : k \in {"no_directory", "no_file", "not_a_database"}}
    \cup UNION {
           {[kind |-> "database", tables |-> tables, undecodable |-> u] :
              tables \in [present -> UNION {StoredTables(t) : t \in present}],
              u \in {{}, present \cap {"geological_constraints"}}}
           : present \in SUBSET TableNames}

\* a GeoPackage whose tables hold what their names say
WellFormed(st) ==
    st.kind = "database" =>
        \A t \in DOMAIN st.tables : st.tables[t] \in StoredTables(t)

\* geological_data_comprehensive.csv: missing, empty, malformed, not
\* UTF-8, or a table
CsvFiles ==
    {[kind |-> k] :
        k \in {"no_directory", "no_file", "empty_file", "malformed",
               "not_utf8"}}
    \cup {[kind |-> "csv", data |-> d] :
            d \in {TwoFeatures(SimpleColumns), TwoFeatures(SimpleColumnsOld),
                   [columns |-> SimpleColumns, rows |-> <<>>]}}

---------------------------------------------------------------------------
(* The application: the first run of the script, then one run for each   *)
(* change of a selection widget                                           *)

\* the tables the cached loaders returned
LoadedTables ==
    [geological_data |-> geological_data,
     geo_constraints_data |-> geo_constraints_data,
     eng_constraints_data |-> eng_constraints_data]

\* the module-level tables of a run that did not get to load them
NoTables ==
    [geological_data |-> EmptyFrame,
     geo_constraints_data |-> EmptyFrame,
     eng_constraints_data |-> EmptyFrame]

\* the cached loaders
Loaders == {"load_geological_data", "load_constraint_data"}

\* no loader has opened the store yet
NoReads == [l \in Loaders |-> 0]

\* a decorator that runs the function on every call
cache_data_NeverHit(memo, name, st, fresh) ==
    [exc |-> fresh.exc, val |-> fresh.val, errors |-> fresh.errors,
     store |-> fresh.store, memo |-> memo, opened |-> {name}]

\* @st.cache_data on a function without arguments: the first call that
\* returns is kept for the life of the process, with the messages it
\* emitted, and every later call gives it back without running the
\* function; a call that raises keeps nothing.  fresh is what running the
\* function on the store st gives
cache_data(memo, name, st, fresh) ==
    IF name \in DOMAIN memo
    THEN [exc |-> "none", val |-> memo[name].val,
          errors |-> memo[name].errors, store |-> st, memo |-> memo,
          opened |-> {}]
    ELSE [exc |-> fresh.exc, val |-> fresh.val, errors |-> fresh.errors,
          store |-> fresh.store,
          memo |-> IF fresh.exc = "none"
                   THEN memo @@ (name :> [val |-> fresh.val,
                                          errors |-> fresh.errors])
                   ELSE memo,
          opened |-> {name}]

\* the values of the widgets in a run: the value the session state holds
\* for the key, the default when the key is not there
Widgets(v, options, session) ==
    [key \in DOMAIN Defaults(v, options) |->
        IF key \in DOMAIN session THEN session[key]
        ELSE Defaults(v, options)[key]]

\* a run of the script that an exception ended
Aborted(e, memo, st, opened, errs, session) ==
    [exc |-> e, memo |-> memo, store |-> st, opened |-> opened,
     tables |-> NoTables, errors |-> errs, session |-> session,
     screen |-> [view |-> "none", columns |-> <<>>]]

\* one run of matrix.py from top to bottom: the two cached loaders, the
\* feature list, the widgets, the comparison
MatrixScript(memo, st, session) ==
    LET geological ==
            cache_data(memo, "load_geological_data", st,
                       load_geological_data(st))
        constraint ==
            cache_data(geological.memo, "load_constraint_data",
                       geological.store,
                       load_constraint_data(geological.store))
    IN  IF geological.exc # "none"
        THEN Aborted(geological.exc, geological.memo, geological.store,
                     geological.opened, geological.errors, session)
        ELSE IF constraint.exc # "none"
        THEN Aborted(constraint.exc, constraint.memo, constraint.store,
                     geological.opened \cup constraint.opened,
                     geological.errors \o constraint.errors, session)
        ELSE LET tables ==
                     [geological_data |-> geological.val,
                      geo_constraints_data |-> constraint.val[1],
                      eng_constraints_data |-> constraint.val[2]]
                 widgets ==
                     Widgets("matrix",
                             GEOLOGICAL_FEATURES("matrix", geological.val),
                             session)
             IN  [exc |-> "none", memo |-> constraint.memo,
                  store |-> constraint.store,
                  opened |-> geological.opened \cup constraint.opened,
                  tables |-> tables,
                  errors |-> geological.errors \o constraint.errors,
                  session |-> widgets,
                  screen |-> Render("matrix", tables, widgets)]

\* one run of matrix_simple.py from top to bottom
SimpleScript(memo, st, session) ==
    LET geological ==
            cache_data(memo, "load_geological_data", st,
                       load_geological_data_simple(st))
    IN  IF geological.exc # "none"
        THEN Aborted(geological.exc, geological.memo, geological.store,
                     geological.opened, geological.errors, session)
        ELSE LET tables ==
                     [geological_data |-> geological.val,
                      geo_constraints_data |-> EmptyFrame,
                      eng_constraints_data |-> EmptyFrame]
                 widgets ==
                     Widgets("matrix_simple",
                             GEOLOGICAL_FEATURES("matrix_simple",
                                                 geological.val),
                             session)
             IN  [exc |-> "none", memo |-> geological.memo,
                  store |-> geological.store,
                  opened |-> geological.opened,
                  tables |-> tables,
                  errors |-> geological.errors,
                  session |-> widgets,
                  screen |-> Render("matrix_simple", tables, widgets)]

\* one run of the script of version v
Script(v, memo, st, session) ==
    IF v = "matrix" THEN MatrixScript(memo, st, session)
    ELSE SimpleScript(memo, st, session)

\* what a run leaves behind in the process: the cache, the store, the
\* count of the times each loader opened the store, the module-level tables
\* and the messages shown
ProcessAfter(run) ==
    /\ cache' = run.memo
    /\ store' = run.store
    /\ reads' = [l \in Loaders |->
                    reads[l] + IF l \in run.opened THEN 1 ELSE 0]
    /\ geological_data' = run.tables.geological_data
    /\ geo_constraints_data' = run.tables.geo_constraints_data
    /\ eng_constraints_data' = run.tables.eng_constraints_data
    /\ errors' = run.errors

\* no loader has opened the store more often than the model follows
ReadsFollowed == \A l \in Loaders : reads[l] < MaxReads

InitApp ==
    /\ calls = <<>>
    /\ csv_files = <<>>
    /\ op = "app"
    /\ pc = "start"
    /\ version \in {"matrix", "matrix_simple"}
    /\ store \in IF version = "matrix"
                 THEN {st \in GeoPackages : WellFormed(st)}
                 ELSE CsvFiles
    /\ constraints_data = EmptyFrame
    /\ feature_name = Sand
    /\ geological_data = EmptyFrame
    /\ foundation_type = "Piles"
    /\ feature_data = NoneValue
    /\ ret = Returns(<<>>)
    /\ geo_constraints_data = EmptyFrame
    /\ eng_constraints_data = EmptyFrame
    /\ errors = <<>>
    /\ session_state = <<>>
    /\ screen = [view |-> "none", columns |-> <<>>]
    /\ cache = <<>>
    /\ reads = NoReads
    /\ peer_state = <<>>
    /\ peer_screen = [view |-> "none", columns |-> <<>>]

\* the first run of the script in the first session of the process
Start(v) ==
    /\ op = "app" /\ pc = "start" /\ version = v
    /\ \E run \in {Script(v, cache, store, <<>>)} :
           /\ ProcessAfter(run)
           /\ IF run.exc # "none"
              THEN /\ pc' = "crashed"
                   /\ ret' = Raises(run.exc)
                   /\ UNCHANGED <<session_state, screen>>
              ELSE /\ pc' = "shown"
                   /\ ret' = ret
                   /\ session_state' = run.session
                   /\ screen' = run.screen
    /\ UNCHANGED <<csv_files, calls, op, version, constraints_data, feature_name,
                   foundation_type, feature_data, peer_state, peer_screen>>

\* the first run of matrix.py
StartMatrix == Start("matrix")

\* the first run of matrix_simple.py
StartSimple == Start("matrix_simple")

\* a rerun that keeps showing what the run before it displayed
Select_StaleScreen ==
    /\ op = "app" /\ pc = "shown" /\ ReadsFollowed
    /\ \E key \in DOMAIN session_state :
         \E value \in OptionsOf(key, GEOLOGICAL_FEATURES(version,
                                                         geological_data)) :
            /\ value # session_state[key]
            /\ session_state' = [session_state EXCEPT ![key] = value]
            /\ screen' = screen
    /\ UNCHANGED <<csv_files, calls, op, pc, version, constraints_data, feature_name,
                   geological_data, foundation_type, feature_data, ret,
                   store, geo_constraints_data, eng_constraints_data, errors,
                   cache, reads, peer_state, peer_screen>>

\* the user picks another option of one widget: the widget's key takes the
\* value and the script runs again
Select ==
    /\ op = "app" /\ pc = "shown" /\ ReadsFollowed
    /\ \E key \in DOMAIN session_state :
         \E value \in OptionsOf(key, GEOLOGICAL_FEATURES(version,
                                                         geological_data)) :
            /\ value # session_state[key]
            /\ \E run \in {Script(version, cache, store,
                                 [session_state EXCEPT ![key] = value])} :
                   /\ ProcessAfter(run)
                   /\ session_state' = run.session
                   /\ screen' = run.screen
    /\ calls' = <<>>
    /\ UNCHANGED <<csv_files, op, pc, version, constraints_data, feature_name,
                   foundation_type, feature_data, ret, peer_state,
                   peer_screen>>

\* a "Reset Selection" that deletes no key before the script runs again
Reset_KeepsKeys ==
    /\ op = "app" /\ pc = "shown" /\ version = "matrix_simple"
    /\ ReadsFollowed
    /\ \E run \in {Script(version, cache, store, session_state)} :
           /\ ProcessAfter(run)
           /\ session_state' = run.session
           /\ screen' = run.screen
    /\ calls' = <<"Reset Selection">>
    /\ UNCHANGED <<csv_files, op, pc, version, constraints_data, feature_name,
                   foundation_type, feature_data, ret, peer_state,
                   peer_screen>>

\* "Reset Selection" of matrix_simple.py: the three keys are deleted and
\* the script runs again, the widgets back at their defaults; calls keeps
\* the button whose press started the last run of the session
Reset ==
    /\ op = "app" /\ pc = "shown" /\ version = "matrix_simple"
    /\ ReadsFollowed
    /\ \E run \in {Script(version, cache, store, <<>>)} :
           /\ ProcessAfter(run)
           /\ session_state' = run.session
           /\ screen' = run.screen
    /\ calls' = <<"Reset Selection">>
    /\ UNCHANGED <<csv_files, op, pc, version, constraints_data, feature_name,
                   foundation_type, feature_data, ret, peer_state,
                   peer_screen>>

\* another browser session opens the page: the script runs for it with a
\* session state of its own and the cache of the process
PeerStart ==
    /\ op = "app" /\ pc = "shown" /\ peer_state = <<>> /\ ReadsFollowed
    /\ \E run \in {Script(version, cache, store, <<>>)} :
           /\ ProcessAfter(run)
           /\ peer_state' = run.session
           /\ peer_screen' = run.screen
    /\ UNCHANGED <<csv_files, calls, op, pc, version, constraints_data, feature_name,
                   foundation_type, feature_data, ret, session_state, screen>>

\* the user of the other session picks another option of one widget
PeerSelect ==
    /\ op = "app" /\ pc = "shown" /\ peer_state # <<>> /\ ReadsFollowed
    /\ \E key \in DOMAIN peer_state :
         \E value \in OptionsOf(key, GEOLOGICAL_FEATURES(version,
                                                         geological_data)) :
            /\ value # peer_state[key]
            /\ \E run \in {Script(version, cache, store,
                                 [peer_state EXCEPT ![key] = value])} :
                   /\ ProcessAfter(run)
                   /\ peer_state' = run.session
                   /\ peer_screen' = run.screen
    /\ UNCHANGED <<csv_files, calls, op, pc, version, constraints_data, feature_name,
                   foundation_type, feature_data, ret, session_state, screen>>

\* the process is stopped and started again: the cache, the module-level
\* tables and the sessions are gone, the store stays
Restart ==
    /\ op = "app" /\ pc \in {"shown", "crashed"}
    /\ pc' = "start"
    /\ ret' = Returns(<<>>)
    /\ cache' = <<>>
    /\ reads' = NoReads
    /\ geological_data' = EmptyFrame
    /\ geo_constraints_data' = EmptyFrame
    /\ eng_constraints_data' = EmptyFrame
    /\ errors' = <<>>
    /\ session_state' = <<>>
    /\ screen' = [view |-> "none", columns |-> <<>>]
    /\ peer_state' = <<>>
    /\ peer_screen' = [view |-> "none", columns |-> <<>>]
    /\ calls' = <<>>
    /\ UNCHANGED <<csv_files, op, version, constraints_data, feature_name,
                   foundation_type, feature_data, store>>

NextApp ==
    \/ StartMatrix \/ StartSimple \/ Select \/ Reset
    \/ PeerStart \/ PeerSelect \/ Restart

SpecApp == InitApp /\ [][NextApp]_vars

---------------------------------------------------------------------------
(* Properties of the loaders and of the renderer *)

\* the script has run and displays the comparison
Shown == op = "app" /\ pc = "shown" /\ screen.view = "comparison"

\* the selected value names no row of the loaded features table
Absent(selected) ==
    \/ IsNa(selected)
    \/ Empty(geological_data)
    \/ ~NamePresent(geological_data, Str(selected))

\* the columns of the screen whose selected value is absent from the table
AbsentColumns == {c \in 1..2 : Absent(screen.columns[c].feature)}

\* the first row of df named like the selected value marks a column that
\* is listed
MarksListedColumn(df, selected) ==
    /\ ~IsNa(selected)
    /\ ~Empty(df)
    /\ HasRow(df, Str(selected))
    /\ \E j \in ConstraintColumns(df) :
          /\ MarksX(FirstRow(df, Str(selected))[j])
          /\ Strip(df.columns[j]) # <<>>
          /\ Strip(df.columns[j]) \notin Denylist

\* the blocks that depend on the record show their fixed text
RecordBlocksArePlaceholders(col) ==
    /\ IsNone(col.feature_data)
    /\ col.characteristics = Placeholder(NoDataAvailable)
    /\ IF version = "matrix"
       THEN /\ col.foundation = Placeholder(NoAssessmentDataAvailable)
            /\ col.comments = Placeholder(NoEngineeringCommentsAvailable)
            /\ col.references = Placeholder(NoReferencesAvailable)
       ELSE /\ col.foundation.kind = "assessments"
            /\ Len(col.foundation.lines) = 1
            /\ col.foundation.lines[1].assessment = DataNotAvailable
            /\ col.definition = Placeholder(NoDefinitionAvailable)
            /\ col.comments = Placeholder(NoCommentsAvailable)

\* the two constraint lists show their fixed text
ConstraintBlocksArePlaceholders(col) ==
    IF version = "matrix"
    THEN /\ col.geological_constraints =
                Placeholder(NoGeologicalConstraintsIdentified)
         /\ col.engineering_constraints =
                Placeholder(NoEngineeringConstraintsIdentified)
    ELSE /\ col.geological_constraints = Placeholder(NoneIdentified)
         /\ col.engineering_constraints = Placeholder(NoneIdentified)

\* C6 as stated: for a selected name absent from the features table the
\* resolver returns None and every block of its column (characteristics,
\* constraints, foundation assessment, comments, references) shows its fixed
\* placeholder text, and no run of the renderer raises.
C6_AbsentNameAllBlocksPlaceholders ==
    Shown =>
        \A c \in AbsentColumns :
            /\ RecordBlocksArePlaceholders(screen.columns[c])
            /\ ConstraintBlocksArePlaceholders(screen.columns[c])

\* C6 amended: for a selected name absent from the features table the
\* resolver returns None and the characteristics, foundation assessment,
\* comments and references blocks show their fixed placeholder text; each
\* constraint list of matrix.py is read from its constraint table by name,
\* whatever the features table holds: it shows the placeholder exactly when
\* the first row of that name in the constraint table marks no listed column,
\* and pills otherwise.  No run of the renderer raises.
C6_AbsentNamePlaceholdersButConstraintLists ==
    /\ (op = "app" /\ pc = "crashed") => version = "matrix_simple"
    /\ Shown =>
        \A c \in AbsentColumns :
            LET col == screen.columns[c]
            IN  /\ RecordBlocksArePlaceholders(col)
                /\ IF version = "matrix"
                   THEN /\ IF MarksListedColumn(geo_constraints_data,
                                                col.feature)
                           THEN col.geological_constraints.kind = "pills"
                           ELSE col.geological_constraints =
                                  Placeholder(NoGeologicalConstraintsIdentified)
                        /\ IF MarksListedColumn(eng_constraints_data,
                                                col.feature)
                           THEN col.engineering_constraints.kind = "pills"
                           ELSE col.engineering_constraints =
                                  Placeholder(NoEngineeringConstraintsIdentified)
                   ELSE ConstraintBlocksArePlaceholders(col)

\* the features table failed to load, the placeholder of the feature list is
\* selected, it has no record, and its column shows the constraint a row of
\* that name marks in the constraint table
C6_Witness ==
    /\ Shown
    /\ version = "matrix"
    /\ errors # <<>>
    /\ 1 \in AbsentColumns
    /\ screen.columns[1].feature = S(NoFeaturesAvailable)
    /\ IsNone(screen.columns[1].feature_data)
    /\ screen.columns[1].characteristics = Placeholder(NoDataAvailable)
    /\ screen.columns[1].geological_constraints =
           Block("pills", <<RaftsOrBoulders>>)
    /\ screen.columns[1].engineering_constraints =
           Placeholder(NoEngineeringConstraintsIdentified)

\* C9 as stated: when the selected name is unknown to the features table the
\* foundation assessment block shows the four foundation types, each with
\* "Data not available".
C9_UnknownNameFourTypesDataNotAvailable ==
    Shown =>
        \A c \in AbsentColumns :
            LET block == screen.columns[c].foundation
            IN  /\ block.kind = "assessments"
                /\ Len(block.lines) = Len(FOUNDATION_TYPES)
                /\ \A k \in 1..Len(FOUNDATION_TYPES) :
                      /\ block.lines[k].foundation_type = FOUNDATION_TYPES[k]
                      /\ block.lines[k].assessment = DataNotAvailable

\* C9 amended: when the selected name is unknown to the features table,
\* matrix.py shows the single text "No assessment data available" and lists
\* no foundation type; matrix_simple.py shows the one selected foundation
\* type with "Data not available" and the complexity "Unknown"; the accessor
\* itself returns "Data not available" for each of the four types when it
\* is given no record.
C9_UnknownNameSingleText ==
    /\ \A ft \in Elems(FOUNDATION_TYPES) :
          /\ get_assessment(NoneValue, ft) = Returns(S(DataNotAvailable))
          /\ get_assessment_simple(NoneValue, ft) = Returns(S(DataNotAvailable))
    /\ Shown =>
        \A c \in AbsentColumns :
            LET block == screen.columns[c].foundation
            IN  IF version = "matrix"
                THEN block = Placeholder(NoAssessmentDataAvailable)
                ELSE block =
                       Block("assessments",
                             <<[foundation_type |-> session_state.foundation,
                                assessment |-> DataNotAvailable,
                                complexity |-> "Unknown"]>>)

\* the features table is empty, the placeholder is selected in both columns
\* and the foundation block of matrix.py shows its single text
C9_Witness ==
    /\ Shown
    /\ version = "matrix"
    /\ AbsentColumns = {1, 2}
    /\ screen.columns[1].feature = S(NoFeaturesAvailable)
    /\ screen.columns[1].foundation = Placeholder(NoAssessmentDataAvailable)
    /\ screen.columns[2].foundation = Placeholder(NoAssessmentDataAvailable)

\* the load of the features table cannot succeed on this store
FeaturesUnreadable(st) ==
    IF version = "matrix"
    THEN \/ st.kind # "database"
         \/ "geological_features" \notin DOMAIN st.tables
         \/ "geological_features" \in st.undecodable
         \/ ~(Elems(FeatureColumns)
                \subseteq Elems(st.tables["geological_features"].columns))
    ELSE st.kind # "csv"

\* the load of the two constraint tables cannot succeed on this store
ConstraintsUnreadable(st) ==
    \/ st.kind # "database"
    \/ ~({"geological_constraints", "engineering_constraints"}
           \subseteq DOMAIN st.tables)
    \/ st.undecodable # {}

\* the messages a list of except clauses can emit
MessagesOf(handlers) == {handlers[i].message : i \in 1..Len(handlers)}

\* C10 as stated: every loader returns the rows of its table or an empty
\* result and lets no exception escape, for every failure of the source
\* (file or directory missing, not a database, table or selected column
\* missing, malformed, empty, not UTF-8), and in each failure case an error
\* message is shown to the user.
C10_LoadersNeverRaiseAndReport ==
    (op = "app" /\ pc # "start") =>
        /\ ret.exc = "none"
        /\ FeaturesUnreadable(store) =>
              /\ geological_data = EmptyFrame
              /\ \E i \in 1..Len(errors) :
                    errors[i] \in MessagesOf(IF version = "matrix"
                                             THEN GeologicalHandlers
                                             ELSE SimpleHandlers)
        /\ (version = "matrix" /\ ConstraintsUnreadable(store)) =>
              /\ geo_constraints_data = EmptyFrame
              /\ eng_constraints_data = EmptyFrame
              /\ \E i \in 1..Len(errors) :
                    errors[i] \in MessagesOf(ConstraintHandlers)

\* the loaders of matrix.py do as C10 says: no exception escapes them, a
\* failure gives empty tables and a message, a readable table gives the
\* selected columns of its rows
MatrixLoadersNeverRaiseAndReport ==
    (op = "app" /\ pc # "start" /\ version = "matrix") =>
        /\ C10_LoadersNeverRaiseAndReport
        /\ ~FeaturesUnreadable(store) =>
              /\ geological_data.columns = FeatureColumns
              /\ Len(geological_data.rows)
                   = Len(store.tables["geological_features"].rows)
        /\ ~ConstraintsUnreadable(store) =>
              /\ geo_constraints_data = store.tables["geological_constraints"]
              /\ eng_constraints_data = store.tables["engineering_constraints"]

\* matrix_simple.py was started on an empty or a non-UTF-8 CSV file and the
\* exception of pd.read_csv escaped load_geological_data
SimpleLoaderRaised ==
    /\ op = "app" /\ pc = "crashed" /\ version = "matrix_simple"
    /\ store.kind \in {"empty_file", "not_utf8"}
    /\ ret.exc \in {"pandas.errors.EmptyDataError", "UnicodeDecodeError"}
    /\ errors = <<>>

---------------------------------------------------------------------------
(* Properties of the loads taken together *)

\* the table t can be read from the store on its own
Readable(st, t) ==
    /\ st.kind = "database"
    /\ t \in DOMAIN st.tables
    /\ t \notin st.undecodable
    /\ t = "geological_features" =>
          Elems(FeatureColumns) \subseteq Elems(st.tables[t].columns)

\* the first run of matrix.py is over
MatrixLoaded == op = "app" /\ version = "matrix" /\ pc # "start"

\* C11: a load failure of one of the three tables affects only that table:
\* each of the other tables that is itself readable is loaded with its rows.
C11_FailureAffectsOnlyItsTable ==
    MatrixLoaded =>
        /\ Readable(store, "geological_features") =>
              geological_data
                = Project(store.tables["geological_features"], FeatureColumns)
        /\ Readable(store, "geological_constraints") =>
              geo_constraints_data = store.tables["geological_constraints"]
        /\ Readable(store, "engineering_constraints") =>
              eng_constraints_data = store.tables["engineering_constraints"]

\* the features table is loaded whatever becomes of the constraint tables,
\* and the two constraint tables are loaded together or not at all
FeaturesAloneConstraintsTogether ==
    MatrixLoaded =>
        /\ Readable(store, "geological_features") =>
              geological_data
                = Project(store.tables["geological_features"], FeatureColumns)
        /\ IF Readable(store, "geological_constraints")
              /\ Readable(store, "engineering_constraints")
           THEN /\ geo_constraints_data
                     = store.tables["geological_constraints"]
                /\ eng_constraints_data
                     = store.tables["engineering_constraints"]
           ELSE /\ geo_constraints_data = EmptyFrame
                /\ eng_constraints_data = EmptyFrame

\* geological_constraints is readable and marks a constraint of "Sand",
\* engineering_constraints is missing, and the column of "Sand" shows no
\* geological constraint
ReadableConstraintTableDropped ==
    /\ MatrixLoaded /\ pc = "shown"
    /\ Readable(store, "geological_features")
    /\ Readable(store, "geological_constraints")
    /\ "engineering_constraints" \notin DOMAIN store.tables
    /\ geo_constraints_data = EmptyFrame
    /\ \E c \in 1..2 :
          /\ screen.columns[c].feature = S(Sand)
          /\ MarksListedColumn(store.tables["geological_constraints"], S(Sand))
          /\ screen.columns[c].geological_constraints
               = Placeholder(NoGeologicalConstraintsIdentified)

---------------------------------------------------------------------------
(* Properties of the cache, the store and the sessions *)

\* the process is serving sessions before and after the step
Serving == op = "app" /\ pc = "shown" /\ pc' = "shown"

\* C12: over any sequence of script runs within one process each loader
\* opens the backing store at most once; no later run (selection change,
\* reset, run of another session) reads the store again, and the result of
\* the first load, an empty result after a failure included, is what every
\* later run uses until the process restarts.
C12_StoreReadAtMostOnce ==
    /\ [](op = "app" => \A l \in Loaders : reads[l] <= 1)
    /\ [][Serving => /\ reads' = reads
                     /\ cache' = cache
                     /\ LoadedTables' = LoadedTables
                     /\ errors' = errors]_vars

\* the constraint load failed once, two sessions ran the script and the
\* first changed its selection: each loader has opened the store once and
\* the runs still use the empty constraint tables of the first load
C12_Witness ==
    /\ op = "app" /\ pc = "shown" /\ version = "matrix"
    /\ reads = [l \in Loaders |-> 1]
    /\ DOMAIN cache = Loaders
    /\ errors # <<>>
    /\ ~Empty(geological_data)
    /\ geo_constraints_data = EmptyFrame
    /\ cache["load_constraint_data"].val = <<EmptyFrame, EmptyFrame>>
    /\ peer_state # <<>>
    /\ session_state
         # Defaults(version, GEOLOGICAL_FEATURES(version, geological_data))

\* C13: no UI operation (load, resolution, extraction, lookup, rendering,
\* selection change, reset) creates, updates or deletes anything: every
\* step leaves the backing store as it was, also when the store was absent
\* at startup, and leaves the loaded tables as the first run loaded them.
C13_UiLeavesStoreAndTables ==
    [][op = "app" => /\ store' = store
                     /\ Serving => LoadedTables' = LoadedTables]_vars

\* but for the file that sqlite3.connect creates when there is none, no
\* step changes the store, and no run changes the loaded tables
StoreChangesOnlyWhenFileAbsent ==
    [][op = "app" =>
          /\ store' # store =>
                /\ version = "matrix" /\ pc = "start"
                /\ store.kind = "no_file"
                /\ store' = [kind |-> "database", tables |-> <<>>,
                             undecodable |-> {}]
          /\ Serving => LoadedTables' = LoadedTables]_vars

---------------------------------------------------------------------------
(* The constraint extractor called again and again *)

InitRepeat ==
    /\ calls = <<>>
    /\ csv_files = <<>>
    /\ op = "repeat"
    /\ pc = "input"
    /\ version = "matrix"
    /\ InitNameTables
    /\ geological_data = EmptyFrame
    /\ foundation_type = "Piles"
    /\ feature_data = NoneValue
    /\ ret = Returns(<<>>)
    /\ NoApplication

\* another table than the one under test
OtherTable ==
    Table(<<RaftsOrBoulders, SoftSoilUnits>>,
          <<<<S(Sand), S(<<"x">>), S(<<"x">>)>>,
            <<S(Gravel), S(<<"x">>), Null>>>>)

\* another name than the one under test
OtherName == IF feature_name = Sand THEN Gravel ELSE Sand

\* get_constraints_for_feature(name, df): the call reads its arguments
\* and leaves them as they are; the log keeps arguments and return
CallRepeat ==
    /\ op = "repeat"
    /\ Len(calls) < MaxCalls
    /\ \E args \in {<<feature_name, constraints_data>>,
                    <<OtherName, constraints_data>>,
                    <<feature_name, OtherTable>>} :
          /\ ret' = get_constraints_for_feature(args[1], args[2])
          /\ calls' = Append(calls, [feature_name |-> args[1],
                                     constraints_df |-> args[2],
                                     ret |-> ret'])
    /\ pc' = "done"
    /\ UNCHANGED <<csv_files, op, version, constraints_data, feature_name,
                   geological_data, foundation_type, feature_data, app_vars>>

NextRepeat == CallRepeat

SpecRepeat == InitRepeat /\ [][NextRepeat]_vars

---------------------------------------------------------------------------
(* Properties of the list of a row that is marked throughout *)

\* the first row of df named name has "x" in every constraint column
MarkedThroughout(df, name) ==
    /\ ~Empty(df)
    /\ HasRow(df, name)
    /\ \A j \in ConstraintColumns(df) : FirstRow(df, name)[j] = S(<<"x">>)

\* no element occurs twice in the list
NoDuplicate(list) ==
    \A i, k \in 1..Len(list) : list[i] = list[k] => i = k

\* the names of the constraint columns of df (all columns but the first)
DeclaredConstraintColumns(df) == SubSeq(df.columns, 2, Len(df.columns))

\* the trimmed names of the constraint columns of df, in column order,
\* without the blank and the denylisted ones
ListedNames(df) ==
    LET kept == SelectSeq(DeclaredConstraintColumns(df),
                          LAMBDA c : Strip(c) # <<>> /\ Strip(c) \notin Denylist)
    IN  [i \in 1..Len(kept) |-> Strip(kept[i])]

\* C16 as stated: for a row in which every constraint cell is "x" the
\* list equals the declared constraint columns minus the denylist, in
\* column order, and no derived list ever holds a name twice.
C16_MarkedRowGivesDeclaredColumns ==
    ConstraintsDone =>
        /\ MarkedThroughout(constraints_data, feature_name) =>
              ret.val = SelectSeq(DeclaredConstraintColumns(constraints_data),
                                  LAMBDA c : c \notin Denylist)
        /\ NoDuplicate(ret.val)

\* C16 amended: for a row in which every constraint cell is "x" the list
\* equals the whitespace-trimmed names of the constraint columns, in column
\* order, without those that are blank or denylisted after trimming; a
\* derived list holds no name twice when the trimmed names of the table's
\* constraint columns are distinct, and holds a name once for each marked
\* column of that trimmed name otherwise.
C16_MarkedRowGivesTrimmedColumns ==
    ConstraintsDone =>
        /\ MarkedThroughout(constraints_data, feature_name) =>
              ret.val = ListedNames(constraints_data)
        /\ NoDuplicate(ListedNames(constraints_data)) => NoDuplicate(ret.val)

\* a row marked throughout, a padded, a denylisted and a plain column: the
\* list is the trimmed name and the plain name, in column order
C16_Witness ==
    /\ ConstraintsDone
    /\ MarkedThroughout(constraints_data, feature_name)
    /\ Len(constraints_data.columns) = 3
    /\ Len(ret.val) = 2
    /\ NoDuplicate(ret.val)
    /\ ret.val[1] \notin Elems(constraints_data.columns)
    /\ ret.val[2] \in Elems(constraints_data.columns)

\* the columns 'Rafts or boulders' and 'Rafts or boulders ' are both
\* marked and the list holds the name twice
SameNameTwice ==
    /\ ConstraintsDone
    /\ MarkedThroughout(constraints_data, feature_name)
    /\ ret.val = <<RaftsOrBoulders, RaftsOrBoulders>>

---------------------------------------------------------------------------
(* Properties of the column of a feature without record *)

\* the columns of the screen whose feature has no record
ColumnsWithoutRecord ==
    {c \in 1..2 : IsNone(screen.columns[c].feature_data)}

\* the list the extractor gives for the selected value and the table df
ExtractedFor(selected, df) ==
    IF IsNa(selected) THEN <<>>
    ELSE get_constraints_for_feature(Str(selected), df).val

\* the list block shows the extracted names, or its fixed text when there
\* are none
ShowsExtracted(block, list, none_text) ==
    IF list = <<>>
    THEN block = Placeholder(none_text)
    ELSE block.kind = "pills" /\ block.lines = list

\* C17 as stated: when the record of a selected feature is absent, each
\* block of its column (characteristics, constraints, foundation
\* assessment, comments, references) shows its fixed placeholder: no
\* constraint, assessment, comment or reference data is displayed for it.
C17_NoRecordNoDataShown ==
    Shown =>
        \A c \in ColumnsWithoutRecord :
            /\ screen.columns[c].geological_constraints.kind # "pills"
            /\ screen.columns[c].engineering_constraints.kind # "pills"
            /\ RecordBlocksArePlaceholders(screen.columns[c])

\* C17 amended: when the record of a selected feature is absent, the
\* characteristics, foundation assessment, comments and references blocks of
\* its column show their fixed placeholder; the two constraint lists of
\* matrix.py are extracted by name from the constraint tables and show
\* whatever those tables mark for the selected name, the fixed placeholder
\* only when nothing is marked.
C17_NoRecordConstraintsFromTables ==
    Shown =>
        \A c \in ColumnsWithoutRecord :
            LET col == screen.columns[c]
            IN  /\ RecordBlocksArePlaceholders(col)
                /\ IF version = "matrix"
                   THEN /\ ShowsExtracted(
                               col.geological_constraints,
                               ExtractedFor(col.feature, geo_constraints_data),
                               NoGeologicalConstraintsIdentified)
                        /\ ShowsExtracted(
                               col.engineering_constraints,
                               ExtractedFor(col.feature, eng_constraints_data),
                               NoEngineeringConstraintsIdentified)
                   ELSE ConstraintBlocksArePlaceholders(col)

\* the second column has no record: its assessment, comments and references
\* show their fixed text while its geological list shows a constraint
C17_Witness ==
    /\ Shown
    /\ version = "matrix"
    /\ 2 \in ColumnsWithoutRecord
    /\ screen.columns[2].foundation = Placeholder(NoAssessmentDataAvailable)
    /\ screen.columns[2].comments =
           Placeholder(NoEngineeringCommentsAvailable)
    /\ screen.columns[2].references = Placeholder(NoReferencesAvailable)
    /\ screen.columns[2].geological_constraints.kind = "pills"

\* a column without record whose two constraint lists show their fixed text
NoRecordNothingMarked ==
    /\ Shown
    /\ version = "matrix"
    /\ 1 \in ColumnsWithoutRecord
    /\ ConstraintBlocksArePlaceholders(screen.columns[1])

---------------------------------------------------------------------------
(* The data-preparation scripts: their column lists *)

\* reference.csv's and reference-engineering-constraints.csv's name column
GeologicalFeatureInventory ==
    <<"G","e","o","l","o","g","i","c","a","l"," ","f","e","a","t","u","r",
      "e"," ","i","n","v","e","n","t","o","r","y">>
CoarseSoilUnitsIncludingGravel ==
    <<"C","o","a","r","s","e"," ","s","o","i","l"," ","u","n","i","t","s",
      " ","(","i","n","c","l","u","d","i","n","g"," ","g","r","a","v","e",
      "l",")">>
Blowout ==
    <<"B","l","o","w","o","u","t">>
\* 'Potentially unsuitable ', a listed column name that ends with a blank
PotentiallyUnsuitableColumn ==
    <<"P","o","t","e","n","t","i","a","l","l","y"," ","u","n","s","u","i",
      "t","a","b","l","e"," ">>

\* merge_constraints.py: constraint_columns
constraint_columns ==
    <<<<"S","p","a","t","i","a","l"," ","s","o","i","l"," ","v","a","r","i",
        "a","b","i","l","i","t","y"," ","(","l","a","t","e","r","a","l","/",
        "v","e","r","t","i","c","a","l",")">>,
      RaftsOrBoulders,
      CoarseSoilUnitsIncludingGravel,
      SoftSoilUnits,
      <<"O","v","e","r","c","o","n","s","o","l","i","d","a","t","i","o","n",
        " ","(","c","l","a","y","s"," ","/"," ","e","x","t","r","e","m","e",
        "l","y"," ","d","e","n","s","e"," ","s","a","n","d","s",")">>,
      <<"S","t","r","o","n","g"," ","b","e","d","r","o","c","k"," ","a","t",
        "/","n","e","a","r"," ","s","e","a","b","e","d">>,
      <<"U","n","e","v","e","n"," ","g","r","o","u","n","d"," ","(","r","e",
        "l","i","e","f",")">>,
      <<"S","t","e","e","p"," ","s","l","o","p","e","s","/","m","a","r","g",
        "i","n","s"," ","(",">","5"," ","d","e","g","r","e","e"," ","a","n",
        "g","l","e",")">>,
      <<"A","c","t","i","v","e"," ","s","e","d","i","m","e","n","t","a","r",
        "y"," ","s","y","s","t","e","m"," ","(","i","n","c","."," ","m","o",
        "b","i","l","e"," ","s","e","d","i","m","e","n","t","s",")">>,
      <<"S","h","a","l","l","o","w"," ","w","a","t","e","r"," ","(","<","1",
        "5","-","2","0"," ","m",")">>,
      <<"D","e","e","p"," ","w","a","t","e","r"," ","(","<","2","0","0"," ",
        "m",")">>,
      <<"P","o","t","e","n","t","i","a","l"," ","f","a","u","l","t"," ","r",
        "e","a","c","t","i","v","a","t","i","o","n","/","s","e","i","s","m",
        "i","c"," ","a","c","t","i","v","i","t","y">>,
      <<"P","o","t","e","n","t","i","a","l"," "," ","s","l","o","p","e"," ",
        "f","a","i","l","u","r","e">>,
      <<"P","o","t","e","n","t","i","a","l"," ","v","o","l","c","a","n","i",
        "c"," ","a","c","t","i","v","i","t","y">>,
      <<"P","o","t","e","n","t","i","a","l"," ","c","o","n","d","u","i","t",
        " ","f","o","r"," ","f","l","u","i","d","s">>,
      <<"A","c","t","i","v","e"," ","f","l","u","i","d"," ","f","l","o",
        "w">>,
      <<"O","r","g","a","n","i","c"," ","s","o","i","l","s","/","g","a","s",
        "s","y"," ","s","e","d","i","m","e","n","t","s">>,
      Unknown>>

\* create_comprehensive_csv.py: engineering_columns
engineering_columns ==
    <<<<"L","o","w"," ","t","h","e","r","m","a","l"," ","c","o","n","d","u",
        "c","t","i","v","i","t","y","/","l","o","w"," ","w","a","t","e","r",
        " ","c","o","n","t","e","n","t",","," ","o","v","e","r","h","e","a",
        "t","i","n","g">>,
      <<"C","o","m","p","r","e","s","s","i","b","l","e","/"," ","c","o","n",
        "t","r","a","c","t","i","v","e"," ","s","o","i","l","s">>,
      <<"C","o","l","l","a","p","s","a","b","l","e"," ","s","o","i","l","s",
        " ">>,
      <<"S","o","i","l"," ","c","h","a","n","g","e","s"," ","c","h","a","r",
        "a","c","t","e","r"," ","u","p","o","n"," ","c","r","u","s","h","i",
        "n","g"," ">>,
      <<"P","o","t","e","n","t","i","a","l"," ","i","m","p","o","r","t","a",
        "n","t"," ","r","e","s","o","u","r","c","e">>,
      <<"C","a","b","l","e","/","p","i","p","e","l","i","n","e"," ","a","b",
        "r","a","s","i","o","n"," ","o","r"," ","b","e","n","d","i","n","g",
        " ">>,
      <<"F","r","e","e","s","p","a","n"," ","d","e","v","e","l","o","p","m",
        "e","n","t">>,
      <<"C","a","b","l","e"," ","p","l","o","u","g","h"," ","d","e","v","i",
        "a","t","i","o","n">>,
      <<"T","r","e","n","c","h","i","n","g"," ","t","e","c","h","n","i","q",
        "u","e"," ","s","e","l","e","c","t","i","o","n">>,
      <<"R","e","d","u","c","e","d"," ","s","h","a","f","t"," ","f","r","i",
        "c","t","i","o","n"," ","-"," ","s","o","f","t"," ","s","e","d","i",
        "m","e","n","t","s">>,
      <<"S","c","o","u","r"," ","-"," ","r","e","m","o","v","a","l"," ","o",
        "f"," ","l","a","t","e","r","a","l"," ","s","u","p","p","o","r",
        "t">>,
      <<"I","n","c","r","e","a","s","e","d"," ","l","a","t","e","r","a","l",
        " ","l","o","a","d"," ","(","i","c","e",","," ","s","e","d","i","m",
        "e","n","t",")">>,
      <<"V","o","i","d","s","/"," ","p","u","n","c","h"," ","t","h","r","o",
        "u","g","h","/"," ","p","i","l","e"," ","r","u","n">>,
      <<"S","e","a","b","e","d"," ","p","r","e","p","a","r","a","t","i","o",
        "n"," ","(","e",".","g",".",","," ","f","l","a","t","t","e","n","i",
        "n","g",")">>,
      <<"R","e","d","u","c","e","d"," ","s","k","i","r","t"," ","b","u","r",
        "i","a","l"," ","d","e","p","t","h">>,
      <<"U","n","e","v","e","n"," ","l","o","a","d"," ","d","i","s","t","r",
        "i","b","u","t","i","o","n","/","d","i","f","f","e","r","e","n","t",
        "i","a","l"," ","s","e","t","t","l","e","m","e","n","t">>,
      <<"L","a","t","e","r","a","l","/","v","e","r","t","i","c","a","l"," ",
        "v","a","r","i","a","b","i","l","i","t","y"," ","i","n"," ","g","e",
        "o","t","e","c","h","n","i","c","a","l"," ","v","a","l","u","e",
        "s">>,
      <<"R","e","d","u","c","e","d"," ","o","v","e","r","b","u","r","d","e",
        "n"," ","(","v","e","r","t","i","c","a","l",")">>,
      <<"I","n","c","r","e","a","s","e","d"," ","o","v","e","r","b","u","r",
        "d","e","n"," ","(","v","e","r","t","i","c","a","l",")">>,
      <<"M","a","y"," ","n","o","t"," ","s","u","p","p","o","r","t"," ","h",
        "o","l","e"," ","w","h","i","l","e"," ","d","r","i","l","l","i","n",
        "g">>,
      <<"P","o","o","r"," ","d","r","i","v","a","b","i","l","i","t","y","/",
        "r","e","f","u","s","a","l">>,
      Blowout,
      <<"D","a","m","a","g","e"," ","t","o"," ","t","o","o","l","/","f","o",
        "u","n","d","a","t","i","o","n"," ","d","u","r","i","n","g"," ","i",
        "n","s","t","a","l","l","a","t","i","o","n">>,
      Unknown,
      PotentiallyUnsuitableColumn,
      RequiresInvestigation>>

\* the characters of the column names the application addresses
ColumnText ==
    ("Geological_Feature" :>
                   <<"G","e","o","l","o","g","i","c","a","l","_","F",
                     "e","a","t","u","r","e">>)
    @@ ("Setting" :>
                   <<"S","e","t","t","i","n","g">>)
    @@ ("Process" :>
                   <<"P","r","o","c","e","s","s">>)
    @@ ("Constraint_Type" :>
                   <<"C","o","n","s","t","r","a","i","n","t","_","T",
                     "y","p","e">>)
    @@ ("Definition" :>
                   <<"D","e","f","i","n","i","t","i","o","n">>)
    @@ ("Piles_Assessment" :>
                   <<"P","i","l","e","s","_","A","s","s","e","s","s",
                     "m","e","n","t">>)
    @@ ("Suction_Caisson_Assessment" :>
                   <<"S","u","c","t","i","o","n","_","C","a","i","s",
                     "s","o","n","_","A","s","s","e","s","s","m","e","n",
                     "t">>)
    @@ ("GBS_Assessment" :>
                   <<"G","B","S","_","A","s","s","e","s","s","m","e",
                     "n","t">>)
    @@ ("Cables_Assessment" :>
                   <<"C","a","b","l","e","s","_","A","s","s","e","s",
                     "s","m","e","n","t">>)
    @@ ("Dominant_Constraint" :>
                   <<"D","o","m","i","n","a","n","t","_","C","o","n",
                     "s","t","r","a","i","n","t">>)
    @@ ("Comments" :>
                   <<"C","o","m","m","e","n","t","s">>)
    @@ ("References" :>
                   <<"R","e","f","e","r","e","n","c","e","s">>)
    @@ ("Active_Constraints" :>
                   <<"A","c","t","i","v","e","_","C","o","n","s","t",
                     "r","a","i","n","t","s">>)
    @@ ("Engineering_Constraints" :>
                   <<"E","n","g","i","n","e","e","r","i","n","g","_",
                     "C","o","n","s","t","r","a","i","n","t","s">>)

---------------------------------------------------------------------------
(* create_constraints_csv.py: the rows it writes *)

PeatOrganicRich ==
    <<"P","e","a","t"," ","(","o","r","g","a","n","i","c","-","r","i","c",
      "h",")">>

\* the keys of the rows of features_data, in their order
features_columns == [i \in 1..11 |-> ColumnText[SimpleColumns[i]]]

\* features_data: the rows of 'Peat (organic-rich)', 'Sand' and 'Gravel', in
\* the order of the list; the cells of a row in the order of its keys
features_data ==
    <<<<S(PeatOrganicRich),
        S(<<"S","e","d","i","m","e","n","t","s">>),
        S(<<"L","i","t","h","o","l","o","g","y">>),
        S(<<"S","u","p","e","r","f","i","c","i","a","l"," ","d","e","p","o",
            "s","i","t","s","."," ","T","y","p","e"," ","o","f"," ","s","o",
            "i","l"," ","f","o","r","m","e","d"," ","b","y"," ","t","h","e",
            " ","p","a","r","t","i","a","l"," ","d","e","c","o","m","p","o",
            "s","i","t","i","o","n"," ","o","f"," ","v","e","g","e","t","a",
            "t","i","o","n"," ","m","a","t","t","e","r"," ","(","C","o","o",
            "k"," ","e","t"," ","a","l",".",","," ","2","0","2","2",")",".",
            " ","I","n","c","l","u","d","e","s"," ","s","u","b","m","e","r",
            "g","e","d"," ","f","o","r","e","s","t","s",".">>),
        S(HigherConstraint),
        S(HigherConstraint),
        S(HigherConstraint),
        S(HigherConstraint),
        S(<<"O","r","g","a","n","i","c"," ","s","o","i","l","s">>),
        S(<<"O","r","g","a","n","i","c"," ","s","o","i","l","s"," ","c","a",
            "n"," ","a","l","s","o"," ","b","e"," ","a","s","s","o","c","i",
            "a","t","e","d"," ","w","i","t","h"," ","b","i","o","g","e","n",
            "i","c"," ","g","a","s"," ","d","u","e"," ","t","o"," ","t","h",
            "e"," ","b","r","e","a","k","d","o","w","n"," ","o","f"," ","o",
            "r","g","a","n","i","c"," ","m","a","t","t","e","r","."," ","F",
            "i","b","r","o","u","s"," ","p","e","a","t","s"," ","h","a","v",
            "e"," ","t","h","e"," ","a","b","i","l","i","t","y"," ","t","o",
            " ","r","e","i","n","f","o","r","c","e"," ","s","o","i","l","s",
            ","," ","c","a","u","s","i","n","g"," ","i","s","s","u","e","s",
            " ","f","o","r"," ","c","a","b","l","e"," ","t","r","e","n","c",
            "h","i","n","g"," ","w","o","r","k","s",","," ","a","n","d"," ",
            "c","a","n"," ","a","l","s","o"," ","p","r","o","v","i","d","e",
            " ","f","l","u","i","d"," ","m","i","g","r","a","t","i","o","n",
            " ","p","a","t","h","w","a","y","s",".">>),
        S(<<"S","p","a","t","i","a","l"," ","s","o","i","l"," ","v","a","r",
            "i","a","b","i","l","i","t","y"," ","(","l","a","t","e","r","a",
            "l","/","v","e","r","t","i","c","a","l",")",";","S","o","f","t",
            " "," ","s","o","i","l"," ","u","n","i","t","s"," ","-"," ","l",
            "o","w"," ","s","h","e","a","r"," ","s","t","r","e","n","g","t",
            "h"," ",";","O","r","g","a","n","i","c"," ","s","o","i","l","s",
            "/","g","a","s","s","y"," ","s","e","d","i","m","e","n","t",
            "s">>)>>,
      <<S(Sand),
        S(<<"S","e","d","i","m","e","n","t","s">>),
        S(<<"L","i","t","h","o","l","o","g","y">>),
        S(<<"S","u","p","e","r","f","i","c","i","a","l"," ","d","e","p","o",
            "s","i","t","s">>),
        S(LowerConstraint),
        S(ModerateConstraint),
        S(HigherConstraint),
        S(LowerConstraint),
        S(<<"H","o","m","o","g","e","n","o","u","s"," ","s","e","d","i","m",
            "e","n","t","s">>),
        S(<<"P","r","e","s","e","n","t","-","d","a","y"," ","s","a","n","d",
            "s"," ","m","a","y"," ","b","e"," ","r","e","l","a","t","e","d",
            " ","t","o"," ","m","o","b","i","l","e"," ","s","e","d","i","m",
            "e","n","t","s","."," ","D","e","n","s","e"," ","s","a","n","d",
            "s"," ","c","o","u","l","d"," ","b","e"," ","p","r","o","b","l",
            "e","m","a","t","i","c"," ","f","o","r"," ","s","u","c","t","i",
            "o","n"," ","b","u","c","k","e","t","s","."," ","L","o","o","s",
            "e"," ","s","a","n","d","s"," ","w","o","u","l","d"," ","b","e",
            " ","p","r","o","b","l","e","m","a","t","i","c"," ","f","o","r",
            " ","G","B","S",".">>),
        S(CoarseSoilUnitsIncludingGravel)>>,
      <<S(Gravel),
        S(<<"S","e","d","i","m","e","n","t","s">>),
        S(<<"L","i","t","h","o","l","o","g","y">>),
        S(<<"S","u","p","e","r","f","i","c","i","a","l"," ","d","e","p","o",
            "s","i","t","s">>),
        S(ModerateConstraint),
        S(HigherConstraint),
        S(HigherConstraint),
        S(ModerateConstraint),
        S(CoarseSoilUnitsIncludingGravel),
        S(<<"H","a","r","d"," ","s","u","b","s","t","a","t","e"," ","t","h",
            "a","t"," ","m","a","y"," ","b","e"," ","d","i","f","f","i","c",
            "u","l","t"," ","t","o"," ","p","e","n","e","t","r","a","t","e",
            ".">>),
        S(CoarseSoilUnitsIncludingGravel)>>>>

---------------------------------------------------------------------------
(* The data-preparation scripts: the tables they read and write *)

\* the files the scripts read and write
GeologicalDataCsv == "data/geological_data.csv"
GeologicalConstraintsCsv == "data/reference-geological-constraints.csv"
EngineeringConstraintsCsv == "data/reference-engineering-constraints.csv"
ReferenceCsv == "reference.csv"
GeologicalDataUpdatedCsv == "geological_data_updated.csv"
GeologicalDataWithConstraintsCsv == "geological_data_with_constraints.csv"
ReferenceEngineeringCsv == "reference-engineering-constraints.csv"
GeologicalDataComprehensiveCsv == "geological_data_comprehensive.csv"

\* CSV_FILES of create_geopackage.py and update_geopackage.py, in the order
\* of the dictionary
CSV_FILES ==
    <<[table_name |-> "geological_features", file_path |-> GeologicalDataCsv],
      [table_name |-> "geological_constraints",
       file_path |-> GeologicalConstraintsCsv],
      [table_name |-> "engineering_constraints",
       file_path |-> EngineeringConstraintsCsv]>>

\* Path(file_path).exists()
Exists(files, path) == path \in DOMAIN files

\* the byte order mark U+FEFF, one character of a name
Bom == "U+FEFF"

\* name.replace('\ufeff', '')
RemoveBom(s) == SelectSeq(s, LAMBDA c : c # Bom)

\* a cleaning that leaves the names as they are
CleanColumns_Keep(columns) == columns

\* df.columns.str.strip().str.replace('\ufeff', '')
CleanColumns(columns) ==
    [i \in 1..Len(columns) |-> RemoveBom(Strip(columns[i]))]

\* the table with its column names replaced
WithColumns(df, columns) == [columns |-> columns, rows |-> df.rows]

\* the table as the application addresses it: the application reads the
\* columns named in ColumnText, by name
AsAddressed(df) ==
    LET picked ==
            SelectSeq([j \in 1..Len(df.columns) |-> j],
                      LAMBDA j : \E a \in DOMAIN ColumnText :
                                    ColumnText[a] = df.columns[j])
    IN  [columns |-> [k \in 1..Len(picked) |->
                        CHOOSE a \in DOMAIN ColumnText :
                            ColumnText[a] = df.columns[picked[k]]],
         rows |-> [i \in 1..Len(df.rows) |->
                     [k \in 1..Len(picked) |-> df.rows[i][picked[k]]]]]

\* the table as a database table: geological_features is addressed by the
\* names of its columns, the constraint tables by position
AsStored(table_name, df) ==
    IF table_name = "geological_features" THEN AsAddressed(df) ELSE df

\* df.to_sql(table_name, conn, if_exists='replace', index=False): SQLite
\* refuses a table with two columns of the same name, up to case
to_sql(df) ==
    IF \E i, j \in 1..Len(df.columns) :
          i # j /\ Lower(df.columns[i]) = Lower(df.columns[j])
    THEN Raises("pandas.errors.DatabaseError")
    ELSE Returns(df)

\* the loop over CSV_FILES from entry k on: read the file, clean the column
\* names, replace the table; an exception ends the loop and leaves the
\* tables written before it; done counts the tables written
RECURSIVE ConvertFrom(_, _, _)
ConvertFrom(files, tables, k) ==
    IF k > Len(CSV_FILES)
    THEN [ok |-> TRUE, tables |-> tables, done |-> k - 1]
    ELSE LET df == files[CSV_FILES[k].file_path]
             cleaned == WithColumns(df, CleanColumns(df.columns))
             written == to_sql(cleaned)
         IN  IF written.exc # "none"
             THEN [ok |-> FALSE, tables |-> tables, done |-> k - 1]
             ELSE ConvertFrom(
                      files,
                      [t \in DOMAIN tables \cup {CSV_FILES[k].table_name} |->
                          IF t = CSV_FILES[k].table_name
                          THEN AsStored(t, written.val)
                          ELSE tables[t]],
                      k + 1)

\* 0x47503130, 'GP10' in ASCII
GP10 == 1196437808

\* what a database file holds besides its data tables: the application id
\* of its header, its GeoPackage metadata tables and the rows of
\* gpkg_contents, table_name -> data_type.  A file sqlite3.connect has
\* just created has the application id 0 and no table
NoMetadata == [application_id |-> 0, tables |-> {}, contents |-> <<>>]

\* the metadata of a database file; the stores of the application are
\* given without, the application reads none of it
Metadata(st) == IF "gpkg" \in DOMAIN st THEN st.gpkg ELSE NoMetadata

\* the statements before the loop that leave the application id as it is
Compliance_KeepApplicationId(gpkg, committed) ==
    [application_id |-> gpkg.application_id,
     tables |-> gpkg.tables \cup {"gpkg_spatial_ref_sys"}
                \cup (IF committed
                      THEN {"gpkg_contents", "gpkg_geometry_columns"}
                      ELSE {}),
     contents |-> gpkg.contents]

\* the statements before the loop: PRAGMA application_id and CREATE TABLE
\* IF NOT EXISTS gpkg_spatial_ref_sys are written at once; INSERT OR IGNORE
\* opens a transaction, so gpkg_contents and gpkg_geometry_columns are
\* there once the first table is written (committed) and are rolled back
\* when the first table fails
Compliance(gpkg, committed) ==
    [application_id |-> GP10,
     tables |-> gpkg.tables \cup {"gpkg_spatial_ref_sys"}
                \cup (IF committed
                      THEN {"gpkg_contents", "gpkg_geometry_columns"}
                      ELSE {}),
     contents |-> gpkg.contents]

\* INSERT OR REPLACE INTO gpkg_contents (table_name, data_type, ...)
\* VALUES (?, 'attributes', ...) for the first n entries of CSV_FILES
Registered(contents, n) ==
    LET named == {CSV_FILES[k].table_name : k \in 1..n}
    IN  [t \in DOMAIN contents \cup named |->
            IF t \in named THEN "attributes" ELSE contents[t]]

\* the GeoPackage file with the data tables tables and the metadata gpkg
GeoPackage(tables, gpkg) ==
    [kind |-> "database", tables |-> tables, undecodable |-> {},
     gpkg |-> gpkg]

\* a create_geopackage that removes the existing file before it looks for
\* the CSV files
create_geopackage_UnlinkFirst(files, st) ==
    IF \E k \in 1..Len(CSV_FILES) : ~Exists(files, CSV_FILES[k].file_path)
    THEN [ret |-> FALSE,
          store |-> IF st.kind = "no_directory" THEN st
                    ELSE [kind |-> "no_file"]]
    ELSE LET done == ConvertFrom(files, <<>>, 1)
         IN  [ret |-> done.ok,
              store |-> GeoPackage(done.tables,
                                   Compliance(NoMetadata, done.done >= 1))]

\* create_geopackage.create_geopackage: its return value and the store as
\* it leaves it.  The existing file is removed; the tables are registered
\* after the loop, so none is when the loop fails
create_geopackage(files, st) ==
    IF \E k \in 1..Len(CSV_FILES) : ~Exists(files, CSV_FILES[k].file_path)
    THEN [ret |-> FALSE, store |-> st]
    ELSE IF st.kind = "no_directory" THEN [ret |-> FALSE, store |-> st]
    ELSE LET done == ConvertFrom(files, <<>>, 1)
             gpkg == Compliance(NoMetadata, done.done >= 1)
         IN  [ret |-> done.ok,
              store |-> GeoPackage(
                            done.tables,
                            [gpkg EXCEPT !.contents =
                                IF done.ok
                                THEN Registered(@, Len(CSV_FILES))
                                ELSE @])]

\* update_geopackage.update_geopackage_from_csvs: its return value and the
\* store as it leaves it.  A table is registered after it is written, in
\* the transaction the next table commits: when a table fails, the
\* registration of the one before is rolled back with it
update_geopackage_from_csvs(files, st) ==
    IF st.kind \in {"no_directory", "no_file"}
    THEN [ret |-> FALSE, store |-> st]
    ELSE IF \E k \in 1..Len(CSV_FILES) : ~Exists(files, CSV_FILES[k].file_path)
    THEN [ret |-> FALSE, store |-> st]
    ELSE IF st.kind # "database" THEN [ret |-> FALSE, store |-> st]
    ELSE LET done == ConvertFrom(files, st.tables, 1)
             gpkg == Compliance(Metadata(st), done.done >= 1)
         IN  [ret |-> done.ok,
              store |-> GeoPackage(
                            done.tables,
                            [gpkg EXCEPT !.contents =
                                Registered(@, IF done.ok THEN Len(CSV_FILES)
                                              ELSE IF done.done >= 1
                                              THEN done.done - 1
                                              ELSE 0)])]

\* validate_geopackage.required_tables
required_tables == <<"gpkg_spatial_ref_sys", "gpkg_contents">>

\* validate_geopackage.expected_tables
expected_tables ==
    <<"geological_features", "geological_constraints",
      "engineering_constraints">>

\* validate_geopackage.validate_geopackage: its return value and the
\* checks it printed [FAIL] for.  A file that is not a database and a row
\* of gpkg_contents that names no table raise, which returns False
validate_geopackage(st) ==
    IF st.kind \in {"no_directory", "no_file"}
    THEN [ret |-> FALSE, fail |-> <<>>]
    ELSE IF st.kind # "database" THEN [ret |-> FALSE, fail |-> <<>>]
    ELSE LET gpkg == Metadata(st)
             tables == DOMAIN st.tables \cup gpkg.tables
             missing == SelectSeq(required_tables,
                                  LAMBDA t : t \notin tables)
             absent == SelectSeq(expected_tables,
                                 LAMBDA t : t \notin tables)
         IN  IF gpkg.application_id # GP10
             THEN [ret |-> FALSE, fail |-> <<"application_id">>]
             ELSE IF missing # <<>> THEN [ret |-> FALSE, fail |-> missing]
             ELSE IF \E t \in DOMAIN gpkg.contents : t \notin tables
             THEN [ret |-> FALSE, fail |-> <<>>]
             ELSE [ret |-> TRUE, fail |-> absent]

---------------------------------------------------------------------------
(* merge_constraints.py and create_comprehensive_csv.py *)

\* df.to_csv(path, index=False), then pd.read_csv(path): an empty text is
\* written as an empty field and read back as a missing value
ToCsv(df) ==
    [columns |-> df.columns,
     rows |-> [i \in 1..Len(df.rows) |->
                 [j \in 1..Len(df.rows[i]) |->
                     IF df.rows[i][j] = S(<<>>) THEN Null
                     ELSE df.rows[i][j]]]]

\* the files with the table df written to path
Write(files, path, df) ==
    [f \in DOMAIN files \cup {path} |->
        IF f = path THEN ToCsv(df) ELSE files[f]]

\* df[c], the cells of the column named c
Column(df, c) ==
    [i \in 1..Len(df.rows) |-> df.rows[i][ColumnIndex(df, c)]]

\* a.lower().strip() in b.lower().strip()
NameWithin(a, b) == Contains(Strip(Lower(b)), Strip(Lower(a)))

\* a cell test that accepts the capital letter as well
IsLowerX_AnyCase(cell) == ~IsNa(cell) /\ Strip(Lower(Str(cell))) = <<"x">>

\* pd.notna(value) and str(value).strip() == 'x'
IsLowerX(cell) == ~IsNa(cell) /\ Strip(Str(cell)) = <<"x">>

\* the columns of df followed by those of names that df lacks: what
\* assigning a column of each name leaves
WithAssigned(columns, names) ==
    columns \o SelectSeq(names, LAMBDA c : c \notin Elems(columns))

\* the inner loop of merge_constraint_data: the position, counted from one,
\* of the first reference name that contains the feature name or is
\* contained in it; 0 when there is none
FirstMatch(ref_features, geo_feature) ==
    LET hits == {k \in 1..Len(ref_features) :
                    \/ NameWithin(geo_feature, ref_features[k])
                    \/ NameWithin(ref_features[k], geo_feature)}
    IN  IF hits = {} THEN 0
        ELSE CHOOSE k \in hits : \A h \in hits : k <= h

\* the row of ref_data, counted from one, that ref_data.iloc[ref_match]
\* reads for the reference name at position k: ref_match = ref_idx + 1
\* with ref_idx = k - 1 counted from zero; 0 when ref_match is None or not
\* below len(ref_data)
MatchedRow(ref_data, k) ==
    IF k # 0 /\ k < Len(ref_data.rows) THEN k + 1 ELSE 0

\* a row of merged_data that takes the cell of the matched row as it is
\* where merge_constraint_data writes 'x'
MergedRow_CopiesValue(ref_data, geo_data, columns, geo_row, ref_row) ==
    [j \in 1..Len(columns) |->
        IF columns[j] \in Elems(constraint_columns)
        THEN IF /\ ref_row # 0
                /\ columns[j] \in Elems(ref_data.columns)
                /\ IsLowerX(ref_data.rows[ref_row]
                                         [ColumnIndex(ref_data, columns[j])])
             THEN ref_data.rows[ref_row][ColumnIndex(ref_data, columns[j])]
             ELSE S(<<>>)
        ELSE geo_row[ColumnIndex(geo_data, columns[j])]]

\* the row of merged_data for the row geo_row of geo_data, matched to the
\* row ref_row of ref_data (0 for none): the cells of geo_data, and for each
\* listed column 'x' when ref_data has a column of that very name whose
\* cell on the matched row is an 'x', the empty text otherwise
MergedRow(ref_data, geo_data, columns, geo_row, ref_row) ==
    [j \in 1..Len(columns) |->
        IF columns[j] \in Elems(constraint_columns)
        THEN IF /\ ref_row # 0
                /\ columns[j] \in Elems(ref_data.columns)
                /\ IsLowerX(ref_data.rows[ref_row]
                                         [ColumnIndex(ref_data, columns[j])])
             THEN S(<<"x">>)
             ELSE S(<<>>)
        ELSE geo_row[ColumnIndex(geo_data, columns[j])]]

\* the table merged_data for the reference names ref_features
MergedTable(ref_data, geo_data, ref_features, columns) ==
    [columns |-> columns,
     rows |-> [idx \in 1..Len(geo_data.rows) |->
                 MergedRow(ref_data, geo_data, columns, geo_data.rows[idx],
                           MatchedRow(ref_data,
                                      FirstMatch(ref_features,
                                                 Str(geo_data.rows[idx]
                                                       [ColumnIndex(geo_data,
                                                          GeologicalFeature)]))))]]

\* the names of ref_data['Geological feature inventory'].dropna().tolist()
DropNa(cells) ==
    LET named == SelectSeq(cells, LAMBDA cell : ~IsNa(cell))
    IN  [k \in 1..Len(named) |-> Str(named[k])]

\* merge_constraints.merge_constraint_data, on the tables read from
\* reference.csv and geological_data_updated.csv: merged_data
merge_constraint_data(ref_data, geo_data) ==
    IF GeologicalFeatureInventory \notin Elems(ref_data.columns)
       \/ GeologicalFeature \notin Elems(geo_data.columns)
    THEN Raises("KeyError")
    ELSE IF /\ \E i \in 1..Len(ref_data.rows) :
                  ~IsNa(Column(ref_data, GeologicalFeatureInventory)[i])
            /\ \E idx \in 1..Len(geo_data.rows) :
                  IsNa(Column(geo_data, GeologicalFeature)[idx])
    THEN Raises("AttributeError")
    ELSE Returns(MergedTable(
                     ref_data, geo_data,
                     DropNa(Column(ref_data, GeologicalFeatureInventory)),
                     WithAssigned(geo_data.columns, constraint_columns)))

\* ','.join(names)
RECURSIVE Join_Comma(_)
Join_Comma(names) ==
    IF names = <<>> THEN <<>>
    ELSE IF Len(names) = 1 THEN names[1]
    ELSE names[1] \o <<",">> \o Join_Comma(Tail(names))

\* ';'.join(names)
RECURSIVE Join(_)
Join(names) ==
    IF names = <<>> THEN <<>>
    ELSE IF Len(names) = 1 THEN names[1]
    ELSE names[1] \o <<";">> \o Join(Tail(names))

\* the names create_comprehensive_csv collects from the row eng_row: the
\* trimmed name of each listed column the row marks
MarkedEngineeringColumns(eng_data, eng_row) ==
    LET marked == SelectSeq(engineering_columns,
                            LAMBDA c : /\ c \in Elems(eng_data.columns)
                                       /\ IsLowerX(eng_row[ColumnIndex(eng_data, c)]))
    IN  [k \in 1..Len(marked) |-> Strip(marked[k])]

\* the loop over eng_data of create_comprehensive_csv for one feature: the
\* names of the first row whose name contains the feature name, none when
\* there is no such row
EngineeringConstraintsOf(eng_data, feature) ==
    LET hits == {i \in 1..Len(eng_data.rows) :
                    LET cell == eng_data.rows[i]
                                   [ColumnIndex(eng_data,
                                                GeologicalFeatureInventory)]
                    IN  ~IsNa(cell) /\ NameWithin(feature, Str(cell))}
    IN  IF hits = {} THEN <<>>
        ELSE MarkedEngineeringColumns(
                 eng_data,
                 eng_data.rows[CHOOSE i \in hits : \A h \in hits : i <= h])

EngineeringConstraintsColumn == ColumnText["Engineering_Constraints"]
ActiveConstraintsColumn == ColumnText["Active_Constraints"]

\* new_row: the cells of the row, and under 'Engineering_Constraints' the
\* collected names joined, the empty text when there are none
EnhancedRow(geo_data, columns, geo_row, eng_constraints) ==
    [j \in 1..Len(columns) |->
        IF columns[j] = EngineeringConstraintsColumn
        THEN S(Join(eng_constraints))
        ELSE geo_row[ColumnIndex(geo_data, columns[j])]]

\* enhanced_df
EnhancedTable(geo_data, eng_data, columns) ==
    [columns |-> columns,
     rows |-> [idx \in 1..Len(geo_data.rows) |->
                 EnhancedRow(geo_data, columns, geo_data.rows[idx],
                             EngineeringConstraintsOf(
                                 eng_data,
                                 Str(geo_data.rows[idx]
                                       [ColumnIndex(geo_data,
                                                    GeologicalFeature)])))]]

\* create_comprehensive_csv.create_comprehensive_csv, on the tables read
\* from geological_data_with_constraints.csv and the engineering reference:
\* the table it writes, if any, and the exception that escapes it: the
\* summary printed after the file is written reads 'Active_Constraints' 
create_comprehensive_csv(geo_data, eng_data) ==
    IF geo_data.rows = <<>>
    THEN [written |-> EmptyFrame, exc |-> "none"]
    ELSE IF GeologicalFeature \notin Elems(geo_data.columns)
    THEN [written |-> NoneValue, exc |-> "KeyError"]
    ELSE IF eng_data.rows # <<>>
            /\ GeologicalFeatureInventory \notin Elems(eng_data.columns)
    THEN [written |-> NoneValue, exc |-> "KeyError"]
    ELSE IF /\ \E i \in 1..Len(eng_data.rows) :
                  ~IsNa(eng_data.rows[i][ColumnIndex(eng_data,
                                            GeologicalFeatureInventory)])
            /\ \E idx \in 1..Len(geo_data.rows) :
                  IsNa(Column(geo_data, GeologicalFeature)[idx])
    THEN [written |-> NoneValue, exc |-> "AttributeError"]
    ELSE [written |-> EnhancedTable(
                          geo_data, eng_data,
                          WithAssigned(geo_data.columns,
                                       <<EngineeringConstraintsColumn>>)),
          exc |-> IF ActiveConstraintsColumn \notin Elems(geo_data.columns)
                  THEN "KeyError"
                  ELSE "none"]

\* create_constraints_csv.create_constraints_csv: enhanced_df, the rows of
\* features_data whatever the two files it reads hold
create_constraints_csv ==
    [columns |-> features_columns, rows |-> features_data]

---------------------------------------------------------------------------
(* The data-preparation scripts applied to drawn files *)

\* most constraint columns of a drawn reference file
MaxPrepCols == 2

CarbonateSands ==
    <<"C","a","r","b","o","n","a","t","e"," ","s","a","n","d","s">>

\* column names of a geological reference file: a listed one, the same
\* padded, a listed one that ends with a blank, the same without the blank,
\* one with a byte order mark
ReferenceColumnPool ==
    <<RaftsOrBoulders, Append(RaftsOrBoulders, " "), SoftSoilUnits,
      Strip(SoftSoilUnits), <<Bom>> \o CoarseSoilUnitsIncludingGravel>>

\* column names of an engineering reference file
EngineeringColumnPool ==
    <<Blowout, PotentiallyUnsuitableColumn, PotentiallyUnsuitable,
      RequiresInvestigation, Unknown>>

\* the names of the rows of a reference file: the features, a first
\* row without name, a name that contains another
ReferenceNames ==
    {<<S(Sand), S(Gravel)>>, <<Null, S(Sand)>>,
     <<S(CarbonateSands), S(Sand)>>}

\* the cells of a reference file, read in a cycle
MarkCycle == <<S(<<"x">>), Null, S(<<"X">>), S(<<" ","x"," ">>), Null>>

\* a reference file: the name column first, then the columns cols; the
\* cells follow the cycle, two cells on from one row to the next and three
\* cells on from one drawn table to the next
ReferenceTable(first, cols, names, o) ==
    [columns |-> <<first>> \o cols,
     rows |-> [i \in 1..Len(names) |->
                 <<names[i]>> \o
                 [j \in 1..Len(cols) |->
                     MarkCycle[((3 * o + 2 * (i - 1) + (j - 1))
                                   % Len(MarkCycle)) + 1]]]]

\* the ways to pick n positions of 1..m, in increasing order
Picks(m, n) == {q \in [1..n -> 1..m] : \A i, j \in 1..n : i < j => q[i] < q[j]}

\* the drawn contents of a reference file over the column names of pool,
\* in the order of the pool
ReferenceTables(first, pool) ==
    UNION {{ReferenceTable(first, [i \in 1..n |-> pool[q[i]]], names, o) :
              q \in Picks(Len(pool), n),
              names \in ReferenceNames,
              o \in 0..1} : n \in 1..MaxPrepCols}

\* a reference file every script can work with
PlainReference(first, pool) ==
    ReferenceTable(first, <<pool[1], pool[3]>>, <<S(Sand), S(Gravel)>>, 0)

\* geological_data_updated.csv: the features without their constraint list
UpdatedColumns == SubSeq(features_columns, 1, 10)

UpdatedTable(rows) ==
    [columns |-> UpdatedColumns,
     rows |-> [i \in 1..Len(rows) |-> SubSeq(rows[i], 1, 10)]]

\* the drawn contents of geological_data_updated.csv: the rows of
\* features_data, two of them exchanged, one of them without name
UpdatedTables ==
    {UpdatedTable(features_data),
     UpdatedTable(<<features_data[3], features_data[2]>>),
     UpdatedTable(<<features_data[2],
                    [features_data[3] EXCEPT ![1] = Null]>>)}

\* data/geological_data.csv: the stored features, by the text of their
\* column names
GeologicalDataTable ==
    [columns |-> [i \in 1..Len(StoredFeatureColumns) |->
                    ColumnText[StoredFeatureColumns[i]]],
     rows |-> TwoFeatures(StoredFeatureColumns).rows]

\* the files create_geopackage.py and update_geopackage.py read
DataFiles(ref, eng) ==
    (GeologicalDataCsv :> GeologicalDataTable)
    @@ (GeologicalConstraintsCsv :> ref)
    @@ (EngineeringConstraintsCsv :> eng)

\* the files the scripts of the CSV variant read
WorkingFiles(ref, eng, geo) ==
    (ReferenceCsv :> ref)
    @@ (ReferenceEngineeringCsv :> eng)
    @@ (GeologicalDataUpdatedCsv :> geo)

\* the files without the one at path
Without(files, path) == [f \in DOMAIN files \ {path} |-> files[f]]

\* an engineering reference whose row of "Sand" marks two listed columns
TwiceMarkedReference(first) ==
    [columns |-> <<first, Blowout, PotentiallyUnsuitableColumn>>,
     rows |-> <<<<S(Sand), S(<<"x">>), S(<<"x">>)>>>>]

\* the drawn files under the name first of the name column: one of the two
\* references is drawn and the other is plain, or the features are drawn,
\* or a file is missing
DrawnFiles(first, Files(_, _, _)) ==
    LET ref == PlainReference(first, ReferenceColumnPool)
        eng == PlainReference(first, EngineeringColumnPool)
        geo == UpdatedTable(features_data)
    IN  {Files(r, eng, geo) : r \in ReferenceTables(first, ReferenceColumnPool)}
        \cup {Files(ref, e, geo) :
                 e \in ReferenceTables(first, EngineeringColumnPool)
                       \cup {TwiceMarkedReference(first)}}
        \cup {Files(ref, eng, g) : g \in UpdatedTables}
        \cup {Without(Files(ref, eng, geo), path) :
                 path \in DOMAIN Files(ref, eng, geo)}

\* the files of data/ every script can work with
PlainDataFiles ==
    DataFiles(PlainReference(GeologicalFeature, ReferenceColumnPool),
              PlainReference(GeologicalFeature, EngineeringColumnPool))

\* data/geological_data.gpkg as earlier runs can have left it: the empty
\* database sqlite3.connect creates when matrix.py is started without the
\* file, and a database with the data tables alone, which is what
\* ensure_geopackage_compliance is there for
EarlierGeoPackages ==
    {Connect([kind |-> "no_file"]).val,
     [kind |-> "database", undecodable |-> {},
      tables |-> ConvertFrom(PlainDataFiles, <<>>, 1).tables]}

\* the data of one variant is prepared: the GeoPackage of matrix.py from
\* the files of data/, or the CSV file of matrix_simple.py
InitPrepare ==
    /\ calls = <<>>
    /\ op = "prepare"
    /\ pc = "input"
    /\ constraints_data = EmptyFrame
    /\ feature_name = Sand
    /\ geological_data = EmptyFrame
    /\ foundation_type = "Piles"
    /\ feature_data = NoneValue
    /\ ret = Returns(<<>>)
    /\ geo_constraints_data = EmptyFrame
    /\ eng_constraints_data = EmptyFrame
    /\ errors = <<>>
    /\ session_state = <<>>
    /\ screen = [view |-> "none", columns |-> <<>>]
    /\ cache = <<>>
    /\ reads = <<>>
    /\ peer_state = <<>>
    /\ peer_screen = [view |-> "none", columns |-> <<>>]
    /\ \/ /\ version = "matrix"
          /\ store \in {[kind |-> "no_file"], [kind |-> "not_a_database"]}
                       \cup EarlierGeoPackages
          /\ csv_files \in DrawnFiles(GeologicalFeature,
                                      LAMBDA r, e, g : DataFiles(r, e))
       \/ /\ version = "matrix_simple"
          /\ store = [kind |-> "none"]
          /\ csv_files \in DrawnFiles(GeologicalFeatureInventory,
                                      WorkingFiles)

\* python create_geopackage.py
RunCreateGeopackage ==
    /\ op = "prepare"
    /\ version = "matrix"
    /\ \E run \in {create_geopackage(csv_files, store)} :
          /\ store' = run.store
          /\ ret' = Returns(run.ret)
    /\ pc' = "create_geopackage"
    /\ UNCHANGED <<csv_files, calls, op, version, constraints_data,
                   feature_name, geological_data, foundation_type,
                   feature_data, geo_constraints_data, eng_constraints_data,
                   errors, session_state, screen, cache, reads, peer_state,
                   peer_screen>>

\* python update_geopackage.py
RunUpdateGeopackage ==
    /\ op = "prepare"
    /\ version = "matrix"
    /\ \E run \in {update_geopackage_from_csvs(csv_files, store)} :
          /\ store' = run.store
          /\ ret' = Returns(run.ret)
    /\ pc' = "update_geopackage"
    /\ UNCHANGED <<csv_files, calls, op, version, constraints_data,
                   feature_name, geological_data, foundation_type,
                   feature_data, geo_constraints_data, eng_constraints_data,
                   errors, session_state, screen, cache, reads, peer_state,
                   peer_screen>>

\* python validate_geopackage.py
RunValidateGeopackage ==
    /\ op = "prepare"
    /\ version = "matrix"
    /\ pc # "validate_geopackage"
    /\ ret' = Returns(validate_geopackage(store))
    /\ pc' = "validate_geopackage"
    /\ UNCHANGED <<csv_files, calls, op, version, constraints_data,
                   feature_name, geological_data, foundation_type,
                   feature_data, app_vars>>

\* the files of data/ are put right after a script has failed
RepairCsv ==
    /\ op = "prepare"
    /\ version = "matrix"
    /\ pc \in {"create_geopackage", "update_geopackage"}
    /\ ret.val = FALSE
    /\ csv_files # PlainDataFiles
    /\ csv_files' = PlainDataFiles
    /\ pc' = "input"
    /\ UNCHANGED <<ret, calls, op, version, constraints_data, feature_name,
                   geological_data, foundation_type, feature_data, app_vars>>

\* python merge_constraints.py: pd.read_csv raises when a file is missing
RunMergeConstraintData ==
    /\ op = "prepare"
    /\ version = "matrix_simple"
    /\ pc # "shown"
    /\ IF Exists(csv_files, ReferenceCsv)
          /\ Exists(csv_files, GeologicalDataUpdatedCsv)
       THEN \E merged \in {merge_constraint_data(
                               csv_files[ReferenceCsv],
                               csv_files[GeologicalDataUpdatedCsv])} :
               /\ ret' = merged
               /\ csv_files' =
                      IF merged.exc = "none"
                      THEN Write(csv_files, GeologicalDataWithConstraintsCsv,
                                 merged.val)
                      ELSE csv_files
       ELSE /\ ret' = Raises("FileNotFoundError")
            /\ csv_files' = csv_files
    /\ pc' = "merge_constraint_data"
    /\ UNCHANGED <<calls, op, version, constraints_data, feature_name,
                   geological_data, foundation_type, feature_data, app_vars>>

\* python create_constraints_csv.py
RunCreateConstraintsCsv ==
    /\ op = "prepare"
    /\ version = "matrix_simple"
    /\ pc # "shown"
    /\ IF Exists(csv_files, ReferenceCsv)
          /\ Exists(csv_files, GeologicalDataUpdatedCsv)
       THEN /\ ret' = Returns(create_constraints_csv)
            /\ csv_files' = Write(csv_files, GeologicalDataWithConstraintsCsv,
                                  create_constraints_csv)
       ELSE /\ ret' = Raises("FileNotFoundError")
            /\ csv_files' = csv_files
    /\ pc' = "create_constraints_csv"
    /\ UNCHANGED <<calls, op, version, constraints_data, feature_name,
                   geological_data, foundation_type, feature_data, app_vars>>

\* python create_comprehensive_csv.py
RunCreateComprehensiveCsv ==
    /\ op = "prepare"
    /\ version = "matrix_simple"
    /\ pc # "shown"
    /\ IF Exists(csv_files, GeologicalDataWithConstraintsCsv)
          /\ Exists(csv_files, ReferenceEngineeringCsv)
       THEN \E run \in {create_comprehensive_csv(
                            csv_files[GeologicalDataWithConstraintsCsv],
                            csv_files[ReferenceEngineeringCsv])} :
               /\ ret' = IF run.exc = "none" THEN Returns(run.written)
                         ELSE Raises(run.exc)
               /\ csv_files' =
                      IF IsNone(run.written) THEN csv_files
                      ELSE Write(csv_files, GeologicalDataComprehensiveCsv,
                                 run.written)
       ELSE /\ ret' = Raises("FileNotFoundError")
            /\ csv_files' = csv_files
    /\ pc' = "create_comprehensive_csv"
    /\ UNCHANGED <<calls, op, version, constraints_data, feature_name,
                   geological_data, foundation_type, feature_data, app_vars>>

\* geological_data_comprehensive.csv as matrix_simple.py finds it
ComprehensiveFile(files) ==
    IF Exists(files, GeologicalDataComprehensiveCsv)
    THEN [kind |-> "csv",
          data |-> AsAddressed(files[GeologicalDataComprehensiveCsv])]
    ELSE [kind |-> "no_file"]

\* the names asked for in the prepared data
PreparedNames == {Sand, PeatOrganicRich}

\* what matrix_simple.py derives for a record: the assessment of each
\* foundation type and the two constraint lists
Derived(record) ==
    [assessments |-> [ft \in Elems(FOUNDATION_TYPES) |->
                         get_assessment_simple(record, ft).val],
     geological |-> get_active_constraints(record),
     engineering |-> get_engineering_constraints(record)]

\* matrix_simple.py on the prepared file: load it, resolve a feature and
\* derive its assessments and its constraint lists
ShowPrepared ==
    /\ op = "prepare"
    /\ version = "matrix_simple"
    /\ \E name \in PreparedNames,
          loaded \in {load_geological_data_simple(
                          ComprehensiveFile(csv_files))} :
          /\ loaded.exc = "none"
          /\ feature_name' = name
          /\ geological_data' = loaded.val
          /\ errors' = loaded.errors
          /\ \E found \in {get_feature_data(loaded.val, name)} :
                /\ found.exc = "none"
                /\ feature_data' = found.val
                /\ ret' = Returns(Derived(found.val))
    /\ pc' = "shown"
    /\ UNCHANGED <<csv_files, calls, op, version, constraints_data,
                   foundation_type, store, geo_constraints_data,
                   eng_constraints_data, session_state, screen, cache, reads,
                   peer_state, peer_screen>>

NextPrepare ==
    \/ RunCreateGeopackage \/ RunUpdateGeopackage
    \/ RunValidateGeopackage \/ RepairCsv
    \/ RunMergeConstraintData \/ RunCreateConstraintsCsv
    \/ RunCreateComprehensiveCsv \/ ShowPrepared

SpecPrepare == InitPrepare /\ [][NextPrepare]_vars

---------------------------------------------------------------------------
(* Properties of the data-preparation scripts *)

\* the last script run was step and it ran to its end: a script of the
\* GeoPackage returned True, another script raised nothing
Ran(step) ==
    /\ op = "prepare"
    /\ pc = step
    /\ ret.exc = "none"
    /\ step \in {"create_geopackage", "update_geopackage"} => ret.val = TRUE

\* the cell is the marker "x"
IsX(cell) == cell = S(<<"x">>)

\* the table out has the column names of the table in, position by
\* position, and an "x" wherever in has one
KeepsNamesAndMarks(in, out) ==
    /\ Len(out.columns) >= Len(in.columns)
    /\ \A j \in 1..Len(in.columns) : out.columns[j] = in.columns[j]
    /\ Len(out.rows) = Len(in.rows)
    /\ \A i \in 1..Len(in.rows) : \A j \in 1..Len(in.columns) :
          IsX(in.rows[i][j]) => out.rows[i][j] = in.rows[i][j]

\* the constraint tables of CSV_FILES
ConstraintFiles == SubSeq(CSV_FILES, 2, 3)

\* the GeoPackage holds, for each constraint file, a table with the names
\* and the marks of the file
GeoPackageKeepsNamesAndMarks ==
    \A k \in 1..Len(ConstraintFiles) :
        /\ ConstraintFiles[k].table_name \in DOMAIN store.tables
        /\ KeepsNamesAndMarks(csv_files[ConstraintFiles[k].file_path],
                              store.tables[ConstraintFiles[k].table_name])

\* the rows of df whose name cell, in the column first, is the text name
RowsNamed(df, first, name) ==
    {i \in 1..Len(df.rows) : df.rows[i][ColumnIndex(df, first)] = S(name)}

\* the merged file has every constraint column of the reference under its
\* name, and an "x" of the reference on the row of a feature is an "x" on
\* the row of the same feature in the merged file
MergeKeepsNamesAndMarks ==
    LET ref == csv_files[ReferenceCsv]
        geo == csv_files[GeologicalDataUpdatedCsv]
        out == csv_files[GeologicalDataWithConstraintsCsv]
    IN  /\ KeepsNamesAndMarks(geo, out)
        /\ \A j \in 2..Len(ref.columns) :
              /\ ref.columns[j] \in Elems(out.columns)
              /\ \A r \in 1..Len(ref.rows) :
                    (~IsNa(ref.rows[r][1]) /\ IsX(ref.rows[r][j])) =>
                        \A i \in RowsNamed(out, GeologicalFeature,
                                           Str(ref.rows[r][1])) :
                            out.rows[i][ColumnIndex(out, ref.columns[j])]
                                = ref.rows[r][j]

\* C18 as stated: every data-preparation step (create_geopackage,
\* update_geopackage_from_csvs, merge_constraint_data,
\* create_comprehensive_csv) keeps column names and "x" cells as they are:
\* each column name of its output is the corresponding input name and each
\* "x" cell of the input has the same value in the output.
C18_StepsKeepNamesAndMarks ==
    /\ (Ran("create_geopackage") \/ Ran("update_geopackage"))
          => GeoPackageKeepsNamesAndMarks
    /\ Ran("merge_constraint_data") => MergeKeepsNamesAndMarks
    /\ Ran("create_comprehensive_csv") =>
          KeepsNamesAndMarks(csv_files[GeologicalDataWithConstraintsCsv],
                             csv_files[GeologicalDataComprehensiveCsv])

\* what the steps do keep: the GeoPackage tables have the cells of the
\* files and their column names without surrounding blanks and byte order
\* marks; the merged and the comprehensive file have the columns and the
\* cells of the features file they extend
StepsKeepCellsAndCleanedNames ==
    /\ (Ran("create_geopackage") \/ Ran("update_geopackage")) =>
          \A k \in 1..Len(ConstraintFiles) :
              LET in == csv_files[ConstraintFiles[k].file_path]
                  out == store.tables[ConstraintFiles[k].table_name]
              IN  /\ out.rows = in.rows
                  /\ Len(out.columns) = Len(in.columns)
                  /\ \A j \in 1..Len(in.columns) :
                        out.columns[j] = RemoveBom(Strip(in.columns[j]))
    /\ Ran("merge_constraint_data") =>
          KeepsNamesAndMarks(csv_files[GeologicalDataUpdatedCsv],
                             csv_files[GeologicalDataWithConstraintsCsv])
    /\ Ran("create_comprehensive_csv") =>
          KeepsNamesAndMarks(csv_files[GeologicalDataWithConstraintsCsv],
                             csv_files[GeologicalDataComprehensiveCsv])

\* create_geopackage returned True and a column of the file that ends with
\* a blank is stored without it
StoredNameDiffers ==
    /\ Ran("create_geopackage")
    /\ csv_files[GeologicalConstraintsCsv].columns[2]
           = Append(RaftsOrBoulders, " ")
    /\ store.tables["geological_constraints"].columns[2] = RaftsOrBoulders

\* reference.csv marks 'Rafts or boulders' for "Sand" on its first row and
\* the merged file has no mark on the row of "Sand"
MarkOfSandLost ==
    /\ Ran("merge_constraint_data")
    /\ LET ref == csv_files[ReferenceCsv]
           out == csv_files[GeologicalDataWithConstraintsCsv]
       IN  /\ ref.columns[2] = RaftsOrBoulders
           /\ ref.rows[1][1] = S(Sand)
           /\ IsX(ref.rows[1][2])
           /\ \A i \in RowsNamed(out, GeologicalFeature, Sand) :
                 IsNa(out.rows[i][ColumnIndex(out, RaftsOrBoulders)])
           /\ RowsNamed(out, GeologicalFeature, Sand) # {}

\* with a first row without name in reference.csv the mark of "Sand" is
\* carried over to the merged file
MarkOfSandKept ==
    /\ Ran("merge_constraint_data")
    /\ LET ref == csv_files[ReferenceCsv]
           out == csv_files[GeologicalDataWithConstraintsCsv]
       IN  /\ IsNa(ref.rows[1][1])
           /\ \E j \in 2..Len(ref.columns) :
                 /\ ref.columns[j] \in Elems(constraint_columns)
                 /\ IsX(ref.rows[2][j])
                 /\ \E i \in RowsNamed(out, GeologicalFeature, Sand) :
                       IsX(out.rows[i][ColumnIndex(out, ref.columns[j])])

---------------------------------------------------------------------------
(* Properties of the prepared data of the CSV variant *)

\* matrix_simple.py has loaded the prepared file and resolved feature_name
PreparedShown == op = "prepare" /\ pc = "shown"

\* geological_data_comprehensive.csv was written from the file that
\* create_constraints_csv writes: it has the columns of features_data
\* followed by 'Engineering_Constraints'
PreparedFromFeaturesData ==
    /\ Exists(csv_files, GeologicalDataComprehensiveCsv)
    /\ csv_files[GeologicalDataComprehensiveCsv].columns
           = Append(features_columns, EngineeringConstraintsColumn)

\* C19: for the feature "Sand" of the prepared data the assessments are
\* Piles "Lower Constraint", Suction Caisson "Moderate constraint", GBS
\* "Higher Constraint" and Cables "Lower Constraint", and the geological
\* constraint list is exactly ["Coarse soil units (including gravel)"].
C19_SandAssessmentsAndConstraints ==
    (PreparedShown /\ PreparedFromFeaturesData /\ feature_name = Sand) =>
        /\ ~IsNone(feature_data)
        /\ ret.val.assessments["Piles"] = S(LowerConstraint)
        /\ ret.val.assessments["Suction Caisson"] = S(ModerateConstraint)
        /\ ret.val.assessments["GBS"] = S(HigherConstraint)
        /\ ret.val.assessments["Cables"] = S(LowerConstraint)
        /\ ret.val.geological = <<CoarseSoilUnitsIncludingGravel>>

\* "Sand" is shown from the file prepared by create_constraints_csv and
\* create_comprehensive_csv, with its one geological constraint
C19_Witness ==
    /\ PreparedShown
    /\ PreparedFromFeaturesData
    /\ feature_name = Sand
    /\ feature_data["Geological_Feature"] = S(Sand)
    /\ Len(ret.val.geological) = 1
    /\ ret.val.assessments["GBS"] = S(HigherConstraint)

\* "Sand" is shown from a file prepared by merge_constraint_data, which has
\* no 'Active_Constraints' column: the geological list is empty
SandOfMergedDataHasNoList ==
    /\ PreparedShown
    /\ ~PreparedFromFeaturesData
    /\ feature_name = Sand
    /\ ~IsNone(feature_data)
    /\ ret.val.geological = <<>>

---------------------------------------------------------------------------
(* Properties of the engineering list of the CSV variant *)

\* the row of the engineering reference that create_comprehensive_csv uses
\* for feature_name: the first whose name contains it; 0 for none
EngineeringRowOf(eng_data, name) ==
    LET hits == {i \in 1..Len(eng_data.rows) :
                    /\ ~IsNa(eng_data.rows[i][1])
                    /\ NameWithin(name, Str(eng_data.rows[i][1]))}
    IN  IF hits = {} THEN 0
        ELSE CHOOSE i \in hits : \A h \in hits : i <= h

\* C20 as stated: in the CSV variant the engineering constraint list shown
\* for a feature never contains "Unknown", "Potentially unsuitable" or
\* "Requires individual WTG siting investigation", even when the matched
\* row of the engineering reference marks them with "x".
C20_EngineeringListExcludesDenylist ==
    PreparedShown =>
        \A k \in 1..Len(ret.val.engineering) :
            ret.val.engineering[k] \notin Denylist

\* what the engineering list holds: for a file written while the shown
\* engineering reference was in place, the trimmed name of every listed
\* column the matched row marks with "x", denylisted or not
EngineeringListHoldsEveryMarkedColumn ==
    (/\ PreparedShown
     /\ ~IsNone(feature_data)
     /\ Exists(csv_files, ReferenceEngineeringCsv)) =>
        LET eng == csv_files[ReferenceEngineeringCsv]
            r == EngineeringRowOf(eng, feature_name)
        IN  \A j \in 2..Len(eng.columns) :
                (/\ r # 0
                 /\ eng.columns[j] \in Elems(engineering_columns)
                 /\ IsX(eng.rows[r][j]))
                => Strip(eng.columns[j]) \in Elems(ret.val.engineering)

\* the engineering reference marks 'Potentially unsuitable ' and 'Unknown'
\* for "Sand" and the list shown for "Sand" holds a denylisted name
DenylistedNameShown ==
    /\ PreparedShown
    /\ feature_name = Sand
    /\ Exists(csv_files, ReferenceEngineeringCsv)
    /\ \E j \in 2..Len(csv_files[ReferenceEngineeringCsv].columns) :
          /\ Strip(csv_files[ReferenceEngineeringCsv].columns[j]) \in Denylist
          /\ IsX(csv_files[ReferenceEngineeringCsv].rows[1][j])
    /\ \E k \in 1..Len(ret.val.engineering) :
          ret.val.engineering[k] \in Denylist

---------------------------------------------------------------------------
(* Properties of the GeoPackage the scripts leave *)

\* the GeoPackage is what validate_geopackage.py looks for: the application
\* id, the two required metadata tables, the three data tables, each of
\* them registered in gpkg_contents as 'attributes'
Compliant(st) ==
    /\ st.kind = "database"
    /\ Metadata(st).application_id = GP10
    /\ Elems(required_tables) \subseteq Metadata(st).tables
    /\ Elems(expected_tables) \subseteq DOMAIN st.tables
    /\ \A t \in Elems(expected_tables) :
          /\ t \in DOMAIN Metadata(st).contents
          /\ Metadata(st).contents[t] = "attributes"

\* C21: after a run of create_geopackage or of update_geopackage_from_csvs
\* that returned True, whatever ran before it, the GeoPackage has the
\* application id 0x47503130, the two metadata tables and the three data
\* tables, each registered as 'attributes', and validate_geopackage
\* returns True on it
C21_SuccessfulRunLeavesCompliant ==
    (Ran("create_geopackage") \/ Ran("update_geopackage"))
        => /\ Compliant(store)
           /\ validate_geopackage(store).ret = TRUE
           /\ validate_geopackage(store).fail = <<>>

\* update_geopackage_from_csvs has returned True on files every script can
\* work with, and the GeoPackage is compliant
C21_Witness ==
    /\ Ran("update_geopackage")
    /\ csv_files = PlainDataFiles
    /\ Compliant(store)
    /\ validate_geopackage(store).ret = TRUE

\* the validator has run
Validated == op = "prepare" /\ pc = "validate_geopackage"

\* C22: whenever validate_geopackage returns True none of its checks
\* reported [FAIL]: the application id is 0x47503130, the two metadata
\* tables exist and the three data tables exist
C22_SuccessMeansNoFail ==
    (Validated /\ ret.val.ret = TRUE)
        => /\ ret.val.fail = <<>>
           /\ Metadata(store).application_id = GP10
           /\ Elems(required_tables) \subseteq Metadata(store).tables
           /\ Elems(expected_tables) \subseteq DOMAIN store.tables

\* what the validator's True does stand for: the application id and the
\* two metadata tables; and a [FAIL] next to True names a data table
SuccessMeansIdAndMetadata ==
    (Validated /\ ret.val.ret = TRUE)
        => /\ Metadata(store).application_id = GP10
           /\ Elems(required_tables) \subseteq Metadata(store).tables
           /\ \A i \in 1..Len(ret.val.fail) :
                 /\ ret.val.fail[i] \in Elems(expected_tables)
                 /\ ret.val.fail[i] \notin DOMAIN store.tables

\* the validator returned True after it reported a missing data table
SuccessWithFail ==
    /\ Validated
    /\ ret.val.ret = TRUE
    /\ ret.val.fail # <<>>

---------------------------------------------------------------------------
(* Properties of the scripts on missing inputs *)

\* one of the three CSV files of data/ is missing
CsvMissing ==
    \E k \in 1..Len(CSV_FILES) : ~Exists(csv_files, CSV_FILES[k].file_path)

\* C25: when one of the three CSV files is missing, create_geopackage and
\* update_geopackage_from_csvs return False and leave data/geological_data.gpkg
\* as it is, present or not; so does update_geopackage_from_csvs when the
\* GeoPackage is missing
C25_MissingInputLeavesGeoPackage ==
    [][/\ (pc' = "create_geopackage" /\ CsvMissing
              => ret'.val = FALSE /\ store' = store)
       /\ (pc' = "update_geopackage" /\ (CsvMissing \/ store.kind = "no_file")
              => ret'.val = FALSE /\ store' = store)]_vars

\* create_geopackage has returned False for a missing CSV file and the
\* database that was there is still there
C25_Witness ==
    /\ op = "prepare"
    /\ pc = "create_geopackage"
    /\ ret.val = FALSE
    /\ CsvMissing
    /\ store.kind = "database"
    /\ DOMAIN store.tables = Elems(expected_tables)

---------------------------------------------------------------------------
(* Properties of the marks merge_constraint_data writes *)

\* merge_constraint_data has returned merged_data
Merged == Ran("merge_constraint_data")

\* the row of ref_data, counted from one, that holds the k-th name of
\* ref_features, the names that are not null
NamedRow(ref_data, k) ==
    CHOOSE r \in 1..Len(ref_data.rows) :
        /\ ~IsNa(Column(ref_data, GeologicalFeatureInventory)[r])
        /\ Cardinality({q \in 1..r :
               ~IsNa(Column(ref_data, GeologicalFeatureInventory)[q])}) = k

\* the position in ref_features of the reference name matched to the
\* feature of row idx of geological_data_updated.csv, 0 for none
MatchOf(idx) ==
    FirstMatch(DropNa(Column(csv_files[ReferenceCsv],
                             GeologicalFeatureInventory)),
               Str(Column(csv_files[GeologicalDataUpdatedCsv],
                          GeologicalFeature)[idx]))

\* the listed constraint columns reference.csv has
ListedReferenceColumns ==
    {c \in Elems(constraint_columns) :
        c \in Elems(csv_files[ReferenceCsv].columns)}

\* on row idx of merged_data the marks under the listed columns are those
\* of row r of reference.csv, none for r = 0
MarksAreThoseOf(idx, r) ==
    \A c \in ListedReferenceColumns :
        ret.val.rows[idx][ColumnIndex(ret.val, c)] = S(<<"x">>)
            <=> /\ r # 0
                /\ IsLowerX(csv_files[ReferenceCsv].rows[r]
                               [ColumnIndex(csv_files[ReferenceCsv], c)])

\* C23: for each geological feature matched to a reference feature, the
\* "x" marks written to the merged row are exactly those of the reference
\* row whose name matched, wherever that row is in reference.csv and
\* whether or not earlier reference rows have a null name
C23_MarksOfMatchedRow ==
    Merged =>
        \A idx \in 1..Len(ret.val.rows) :
            MatchOf(idx) # 0 =>
                MarksAreThoseOf(idx, NamedRow(csv_files[ReferenceCsv],
                                              MatchOf(idx)))

\* what is written: the marks of the row that follows the position of the
\* name in ref_features, none when there is no such row; these are the
\* marks of the matched row when exactly one row without name comes before
MarksOfRowAfterPosition ==
    Merged =>
        \A idx \in 1..Len(ret.val.rows) :
            LET k == MatchOf(idx)
                ref == csv_files[ReferenceCsv]
            IN  /\ MarksAreThoseOf(idx, IF k # 0 /\ k < Len(ref.rows)
                                        THEN k + 1 ELSE 0)
                /\ (k # 0 /\ NamedRow(ref, k) = k + 1)
                       => MarksAreThoseOf(idx, NamedRow(ref, k))

\* Sand is matched to the first row of reference.csv, which marks a listed
\* column, and the row of Sand in merged_data has no mark under it
MatchedRowMarkNotWritten ==
    /\ Merged
    /\ \E idx \in 1..Len(ret.val.rows), c \in ListedReferenceColumns :
          /\ MatchOf(idx) = 1
          /\ NamedRow(csv_files[ReferenceCsv], 1) = 1
          /\ IsLowerX(csv_files[ReferenceCsv].rows[1]
                         [ColumnIndex(csv_files[ReferenceCsv], c)])
          /\ ret.val.rows[idx][ColumnIndex(ret.val, c)] = S(<<>>)

\* a feature is matched to the row after a row without name, and a mark of
\* that row is written
MatchedRowMarkWritten ==
    /\ Merged
    /\ \E idx \in 1..Len(ret.val.rows), c \in ListedReferenceColumns :
          /\ MatchOf(idx) # 0
          /\ NamedRow(csv_files[ReferenceCsv], MatchOf(idx)) = MatchOf(idx) + 1
          /\ ret.val.rows[idx][ColumnIndex(ret.val, c)] = S(<<"x">>)

---------------------------------------------------------------------------
(* Properties of the engineering row create_comprehensive_csv takes *)

\* create_comprehensive_csv has returned enhanced_df
Enhanced == Ran("create_comprehensive_csv")

\* the rows of the engineering reference whose name is name exactly
ExactRows(eng_data, name) ==
    {i \in 1..Len(eng_data.rows) :
        Column(eng_data, GeologicalFeatureInventory)[i] = S(name)}

\* the rows of the engineering reference whose name contains name, after
\* lower-casing and trimming
ContainingRows(eng_data, name) ==
    {i \in 1..Len(eng_data.rows) :
        /\ ~IsNa(Column(eng_data, GeologicalFeatureInventory)[i])
        /\ NameWithin(name,
                      Str(Column(eng_data, GeologicalFeatureInventory)[i]))}

\* the first of the rows
First(rows) == CHOOSE i \in rows : \A h \in rows : i <= h

\* the name of row idx of enhanced_df
EnhancedName(idx) == Str(Column(ret.val, GeologicalFeature)[idx])

\* Engineering_Constraints on row idx of enhanced_df is what row r of the
\* engineering reference marks
TakenFrom(idx, r) ==
    Column(ret.val, EngineeringConstraintsColumn)[idx]
        = S(Join(MarkedEngineeringColumns(
                     csv_files[ReferenceEngineeringCsv],
                     csv_files[ReferenceEngineeringCsv].rows[r])))

\* C24: when the engineering table has a row whose name equals a feature's
\* name exactly, the feature's Engineering_Constraints are taken from that
\* row, even if an earlier row's name contains the feature's name; a
\* containing row is used only when there is no exact one
C24_ExactRowBeforeContainingRow ==
    Enhanced =>
        \A idx \in 1..Len(ret.val.rows) :
            LET eng == csv_files[ReferenceEngineeringCsv]
                exact == ExactRows(eng, EnhancedName(idx))
                containing == ContainingRows(eng, EnhancedName(idx))
            IN  /\ exact # {} => TakenFrom(idx, First(exact))
                /\ (exact = {} /\ containing # {})
                      => TakenFrom(idx, First(containing))

\* the row that is used: the first whose name contains the feature's name,
\* exact or not; the empty text when there is none
FirstContainingRowIsUsed ==
    Enhanced =>
        \A idx \in 1..Len(ret.val.rows) :
            LET eng == csv_files[ReferenceEngineeringCsv]
                containing == ContainingRows(eng, EnhancedName(idx))
            IN  IF containing = {}
                THEN Column(ret.val, EngineeringConstraintsColumn)[idx]
                         = S(<<>>)
                ELSE TakenFrom(idx, First(containing))

\* the engineering reference has the row "Carbonate sands" before the row
\* "Sand", and the Engineering_Constraints of Sand are those of the row
\* "Carbonate sands" and not those of the row "Sand"
EarlierContainingRowUsed ==
    /\ Enhanced
    /\ \E idx \in 1..Len(ret.val.rows) :
          LET eng == csv_files[ReferenceEngineeringCsv]
          IN  /\ EnhancedName(idx) = Sand
              /\ ExactRows(eng, Sand) = {2}
              /\ ContainingRows(eng, Sand) = {1, 2}
              /\ TakenFrom(idx, 1)
              /\ ~TakenFrom(idx, 2)

---------------------------------------------------------------------------
(* Properties of the list of selectable features *)

\* the list the selectboxes offer for the table the resolver reads
Selectable == GEOLOGICAL_FEATURES(version, geological_data)

\* the Geological_Feature values of the table that are not null
NamesOf(df) ==
    {Str(NameCell(df, i)) : i \in {j \in 1..Len(df.rows) : ~IsNa(NameCell(df, j))}}

\* the list is in increasing order, which leaves no room for duplicates
Increasing(list) ==
    \A i, j \in 1..Len(list) : i < j => StrLess(list[i], list[j])

\* the list is the sorted, duplicate-free list of the non-null names of a
\* table that is not empty, and the single placeholder of the version for
\* an empty table, for which the resolver returns None
ListOfNamesOrPlaceholder ==
    IF Empty(geological_data)
    THEN /\ Selectable = <<IF version = "matrix" THEN NoFeaturesAvailable
                           ELSE NoDataAvailable>>
         /\ feature_name = Selectable[1] => IsNone(feature_data)
    ELSE /\ Increasing(Selectable)
         /\ Elems(Selectable) = NamesOf(geological_data)

\* C26: the list of selectable features is the sorted, duplicate-free list
\* of the non-null Geological_Feature values of the loaded table, so every
\* selectable name resolves to a record; for an empty table the list is
\* the single placeholder entry, for which the resolver returns None
C26_SelectableNamesResolve ==
    Resolved =>
        /\ ListOfNamesOrPlaceholder
        /\ (~Empty(geological_data) /\ feature_name \in Elems(Selectable))
               => ~IsNone(feature_data)

\* what holds: the list is as described, and every selectable name
\* resolves to a record but, in matrix.py, the name the resolver's guard
\* sets apart
SelectableNamesResolveButGuard ==
    Resolved =>
        /\ ListOfNamesOrPlaceholder
        /\ (/\ ~Empty(geological_data)
            /\ feature_name \in Elems(Selectable)
            /\ ~(version = "matrix" /\ feature_name = NoFeaturesMatchCriteria))
               => ~IsNone(feature_data)

\* a name of the list of matrix.py is asked for and resolves to None
SelectableNameUnresolved ==
    /\ Resolved
    /\ version = "matrix"
    /\ Len(Selectable) = 2
    /\ feature_name \in Elems(Selectable)
    /\ IsNone(feature_data)

\* the placeholder of an empty table is asked for and resolves to None
PlaceholderUnresolved ==
    /\ Resolved
    /\ Empty(geological_data)
    /\ feature_name = Selectable[1]
    /\ IsNone(feature_data)

---------------------------------------------------------------------------
(* Properties of "Reset Selection" *)

\* the last run of the session was started by "Reset Selection"
ResetPressed ==
    op = "app" /\ pc = "shown" /\ calls = <<"Reset Selection">>

\* C27: in matrix_simple.py, after "Reset Selection" is pressed, whatever
\* was selected before, the next render shows the defaults: feature 1 is
\* the first entry of the feature list, feature 2 the second entry if the
\* list has more than one entry and the first otherwise, and the
\* foundation type is "Piles"
C27_ResetShowsDefaults ==
    ResetPressed =>
        LET list == GEOLOGICAL_FEATURES("matrix_simple", geological_data)
        IN  /\ version = "matrix_simple"
            /\ DOMAIN session_state = {"feature1", "feature2", "foundation"}
            /\ session_state.feature1 = S(list[1])
            /\ session_state.feature2
                   = S(list[IF Len(list) > 1 THEN 2 ELSE 1])
            /\ session_state.foundation = "Piles"
            /\ screen = Render("matrix_simple", LoadedTables, session_state)

\* "Reset Selection" was pressed on a list of two features: the comparison
\* shows the first and the second of them for "Piles"
C27_Witness ==
    /\ ResetPressed
    /\ Len(GEOLOGICAL_FEATURES("matrix_simple", geological_data)) = 2
    /\ session_state.feature1 = S(Gravel)
    /\ session_state.feature2 = S(Sand)
    /\ session_state.foundation = "Piles"
    /\ screen.view = "comparison"
    /\ screen.columns[1].feature = S(Gravel)
    /\ screen.columns[2].feature = S(Sand)

\* "Reset Selection" was pressed on the list of an empty table: both
\* features are the placeholder
ResetOnPlaceholder ==
    /\ ResetPressed
    /\ session_state.feature1 = S(NoDataAvailable)
    /\ session_state.feature2 = S(NoDataAvailable)

---------------------------------------------------------------------------
(* Properties of the two versions of the lookup layer taken together *)

\* the two resolvers return the same for the table and the name of the
\* state, and the state holds what they return
ResolversAgree ==
    /\ get_complete_feature_data(geological_data, feature_name)
           = get_feature_data(geological_data, feature_name)
    /\ get_feature_data(geological_data, feature_name).exc = "none"
           => feature_data
                  = get_feature_data(geological_data, feature_name).val

\* the two accessors return the same for the record and the foundation
\* type of the state, and the state holds what they return
AccessorsAgree ==
    /\ get_assessment(feature_data, foundation_type)
           = get_assessment_simple(feature_data, foundation_type)
    /\ ret = get_assessment_simple(feature_data, foundation_type)

\* C28: the two versions of the lookup layer agree: for every features
\* table and every feature name get_complete_feature_data (matrix.py) and
\* get_feature_data (matrix_simple.py) return the same record or both
\* None, and for every record and foundation type the two get_assessment
\* functions return the same string
C28_LookupLayersAgree ==
    /\ Resolved => ResolversAgree
    /\ (AssessmentDone /\ ret.exc = "none") => AccessorsAgree

\* the name is the one the guard of matrix.py sets apart and the table has
\* a row of that name
GuardedNamePresent ==
    /\ feature_name = NoFeaturesMatchCriteria
    /\ ~Empty(geological_data)
    /\ NamePresent(geological_data, feature_name)

\* where the two versions do agree: the accessors always, the resolvers
\* for every table and name but a present name equal to the guard of
\* matrix.py, for which matrix.py returns None and matrix_simple.py the row
LookupLayersAgreeButGuard ==
    /\ (Resolved /\ ~GuardedNamePresent) => ResolversAgree
    /\ (Resolved /\ GuardedNamePresent)
           => /\ IsNone(get_complete_feature_data(geological_data,
                                                  feature_name).val)
              /\ get_feature_data(geological_data, feature_name).val
                     = Series(geological_data,
                              FirstFeatureRow(geological_data, feature_name))
    /\ (AssessmentDone /\ ret.exc = "none") => AccessorsAgree

\* matrix_simple.py has resolved a name for which matrix.py returns None
ResolversDisagree ==
    /\ Resolved
    /\ version = "matrix_simple"
    /\ ~IsNone(feature_data)
    /\ IsNone(get_complete_feature_data(geological_data, feature_name).val)

\* both accessors have returned the assessment of a resolved record
AccessorsAgreeOnRecord ==
    /\ AssessmentDone
    /\ ~IsNone(feature_data)
    /\ ret.exc = "none"
    /\ ret.val \in Labels
    /\ AccessorsAgree

---------------------------------------------------------------------------
(* Properties of the constraint lists written and read back *)

\* the prepared file is shown for a feature it holds
PreparedRecordShown == PreparedShown /\ ~IsNone(feature_data)

\* the items of the text: the pieces between the semicolons, trimmed, the
\* empty ones left out, in their order
ItemsOf(text, items) ==
    \E n \in 1..(Len(text) + 1) :
        \E pieces \in {Split(text, ";")} :
            /\ Len(pieces) = n
            /\ Join(pieces) = text
            /\ \A k \in 1..n : ";" \notin Elems(pieces[k])
            /\ LET kept == SelectSeq(pieces, LAMBDA c : Strip(c) # <<>>)
               IN  items = [k \in 1..Len(kept) |-> Strip(kept[k])]

\* C29: the names create_comprehensive_csv collected for a feature, joined
\* with ';' and stored, are read back by get_engineering_constraints as the
\* same names in the same order, the empty list being stored as '' and
\* read back as the empty list; and get_active_constraints returns the
\* ';'-separated, trimmed, non-empty items of Active_Constraints in order
C29_JoinSplitRoundTrip ==
    (PreparedRecordShown /\ Exists(csv_files, ReferenceEngineeringCsv)) =>
        LET collected ==
                EngineeringConstraintsOf(csv_files[ReferenceEngineeringCsv],
                                         feature_name)
        IN  /\ feature_data["Engineering_Constraints"]
                   = IF collected = <<>> THEN Null ELSE S(Join(collected))
            /\ ret.val.engineering = collected
            /\ IF "Active_Constraints" \in DOMAIN feature_data
                  /\ ~IsNa(feature_data["Active_Constraints"])
               THEN ItemsOf(Str(feature_data["Active_Constraints"]),
                            ret.val.geological)
               ELSE ret.val.geological = <<>>

\* two names were collected for "Sand", stored as one text and read back
C29_Witness ==
    /\ PreparedRecordShown
    /\ feature_name = Sand
    /\ Len(ret.val.engineering) = 2
    /\ ret.val.engineering = <<Blowout, Strip(PotentiallyUnsuitableColumn)>>
    /\ feature_data["Engineering_Constraints"]
           = S(Blowout \o <<";">> \o Strip(PotentiallyUnsuitableColumn))

\* no name was collected: the stored cell is empty and the list read back
\* is the empty list
NothingCollectedNothingRead ==
    /\ PreparedRecordShown
    /\ IsNa(feature_data["Engineering_Constraints"])
    /\ ret.val.engineering = <<>>

\* the three items of the Active_Constraints of "Peat (organic-rich)" are
\* read, the second without the blank it ends with in the file
ThreeItemsRead ==
    /\ PreparedRecordShown
    /\ feature_name = PeatOrganicRich
    /\ Len(ret.val.geological) = 3
    /\ ret.val.geological[2] = Strip(SoftSoilUnits)
    /\ Str(feature_data["Active_Constraints"])
           # Join(ret.val.geological)

---------------------------------------------------------------------------
(* Properties of what merge_constraint_data leaves of its input *)

\* the cells of row idx of merged_data under the listed constraint columns
ConstraintCells(idx) ==
    {ret.val.rows[idx][ColumnIndex(ret.val, c)] :
        c \in Elems(constraint_columns)}

=============================================================================
